---- MODULE Spec2Model ----
(***************************************************************************)
(* EEG uploader: filename parser, hierarchy builder                        *)
(* (reorganize_to_bids.py), hierarchy scanner and sidecar orchestration    *)
(* (generate_bids_sidecars.py).                                            *)
(* The sidecar classes (sidecar/eegJSON.py, channelsTSV.py,                *)
(* sessionsTSV.py, Sidecar.py) are modelled with their construction,       *)
(* validation and persistence, and Sidecar.get_logger with                 *)
(* logger/setup_logger.py as threads taking the logger lock.                *)
(*                                                                         *)
(* Strings are sequences of one-character strings, so that parsing,        *)
(* formatting and globbing are computed character by character.            *)
(***************************************************************************)
EXTENDS Integers, Sequences, FiniteSets, TLC

VARIABLES
    class_logger,      \* logger: the _logger attribute each class holds itself
    logger_lock,       \* logger: the thread holding _logger_lock, 0 when free
    callers,           \* logger: the threads calling get_logger, each [pc, cls, got]
    logging,           \* logger: setup_logger runs and handlers on the logger
    filename,          \* parser run: the argument handed to parse_filename
    parsed,            \* parser run: what parse_filename returned or raised
    input_dir,         \* names of the files present in the input directory
    patient_identifiers, \* the allow-list of patient ids
    files_by_patient,  \* result of get_files_by_patient, in insertion order
    warnings,          \* file names get_files_by_patient warned about
    removed,           \* number of source files that disappeared
    pc,                \* position of reorganize_to_bids.main
    runs,              \* number of create_bids_structure runs so far
    copy_error,        \* exception that ended the last run, or "none"
    tree_after_first,  \* output tree as the first run left it
    fs_dirs,           \* directories of the output tree (relative paths)
    fs_files,          \* files of the output tree (relative path -> content)
    reader_available,  \* can pyedflib be imported
    pathes,            \* result of find_bids_path
    gpc,               \* position of generate_bids_sidecars.main
    idx,               \* index of the next session of the running loop
    tally,             \* main's success / failure counters
    attempts,          \* the handler calls made so far, with what they returned
    exit_code,         \* what main returned or raised, "running" before
    unit_call,         \* unit run: the method called and its argument
    unit_result        \* unit run: what the call returned or raised

parse_vars == <<filename, parsed>>

build_vars == <<input_dir, patient_identifiers, files_by_patient, warnings,
                removed, pc, runs, copy_error, tree_after_first>>

tree_vars == <<fs_dirs, fs_files>>

sidecar_vars == <<reader_available, pathes, gpc, idx, tally, attempts,
                  exit_code>>

unit_vars == <<unit_call, unit_result>>

logger_vars == <<class_logger, logger_lock, callers, logging>>

vars == <<parse_vars, build_vars, tree_vars, sidecar_vars, unit_vars,
         logger_vars>>

(***************************************************************************)
(* Characters and string helpers                                           *)
(***************************************************************************)
Digit == {"0", "1", "2", "3", "4", "5", "6", "7", "8", "9"}

Upper == {"A", "B", "C", "D", "E", "F", "G", "H", "I", "J", "K", "L", "M",
          "N", "O", "P", "Q", "R", "S", "T", "U", "V", "W", "X", "Y", "Z"}

DigitValue(c) ==
    CASE c = "0" -> 0 [] c = "1" -> 1 [] c = "2" -> 2 [] c = "3" -> 3
      [] c = "4" -> 4 [] c = "5" -> 5 [] c = "6" -> 6 [] c = "7" -> 7
      [] c = "8" -> 8 [] c = "9" -> 9

DigitChar(d) ==
    CASE d = 0 -> "0" [] d = 1 -> "1" [] d = 2 -> "2" [] d = 3 -> "3"
      [] d = 4 -> "4" [] d = 5 -> "5" [] d = 6 -> "6" [] d = 7 -> "7"
      [] d = 8 -> "8" [] d = 9 -> "9"

\* s[i..] (1-based), empty when i is past the end
From(s, i) == SubSeq(s, i, Len(s))

\* does p occur in s at position i
OccursAt(s, p, i) ==
    /\ i >= 1
    /\ i + Len(p) - 1 <= Len(s)
    /\ SubSeq(s, i, i + Len(p) - 1) = p

startswith(s, p) == OccursAt(s, p, 1)

endswith(s, p) == Len(p) <= Len(s) /\ OccursAt(s, p, Len(s) - Len(p) + 1)

\* length of the longest run of characters of class cls starting at s[i]
RECURSIVE Span(_, _, _)
Span(s, i, cls) ==
    IF i <= Len(s) /\ s[i] \in cls THEN 1 + Span(s, i + 1, cls) ELSE 0

\* int(digits)
RECURSIVE int(_)
int(ds) ==
    IF ds = <<>> THEN 0
    ELSE 10 * int(SubSeq(ds, 1, Len(ds) - 1)) + DigitValue(ds[Len(ds)])

\* str(n) for n >= 0
RECURSIVE str(_)
str(n) ==
    IF n < 10 THEN <<DigitChar(n)>>
    ELSE str(n \div 10) \o <<DigitChar(n % 10)>>

\* str.replace(old, ""): every non-overlapping occurrence removed, left to right
RECURSIVE remove_all(_, _)
remove_all(s, old) ==
    IF s = <<>> THEN <<>>
    ELSE IF OccursAt(s, old, 1) THEN remove_all(From(s, Len(old) + 1), old)
    ELSE <<s[1]>> \o remove_all(Tail(s), old)

\* index of the last "." of s, 0 when there is none
RECURSIVE rfind_dot(_, _)
rfind_dot(s, i) ==
    IF i = 0 THEN 0 ELSE IF s[i] = "." THEN i ELSE rfind_dot(s, i - 1)

\* os.path.splitext on a bare file name: the extension starts at the last dot,
\* unless only dots precede it
splitext(name) ==
    LET d == rfind_dot(name, Len(name))
    IN  IF d > 0 /\ \E k \in 1..(d - 1) : name[k] # "."
        THEN <<SubSeq(name, 1, d - 1), From(name, d)>>
        ELSE <<name, <<>>>>

(***************************************************************************)
(* String literals                                                         *)
(***************************************************************************)
S_PRV == <<"P", "R", "V", "-">>
S_annotations == <<"-", "a", "n", "n", "o", "t", "a", "t", "i", "o", "n", "s">>
S_edf == <<".", "e", "d", "f">>
S_xml == <<".", "x", "m", "l">>
S_primary == <<"p", "r", "i", "m", "a", "r", "y">>
S_sub == <<"s", "u", "b", "-">>
S_eeg == <<"e", "e", "g">>
S_ses_visit == <<"s", "e", "s", "-", "v", "i", "s", "i", "t">>
S_ses_visit_m == <<"s", "e", "s", "-", "v", "i", "s", "i", "t", "-", "m">>
S_m == <<"m">>

(***************************************************************************)
(* reorganize_to_bids.parse_filename                                       *)
(***************************************************************************)
\* re.match(r'PRV-(\d+)-([A-Z0-9]+)-(\d+)([A-Z]?)', name): anchored at the
\* start only.  Each greedy run is followed by a character outside its
\* class, so the longest run is the only one a backtracking matcher can use.
re_match(name) ==
    LET p1 == Len(S_PRV) + 1
        n1 == Span(name, p1, Digit)
        p2 == p1 + n1 + 1
        n2 == Span(name, p2, Upper \cup Digit)
        p3 == p2 + n2 + 1
        n3 == Span(name, p3, Digit)
        p4 == p3 + n3
    IN  IF /\ startswith(name, S_PRV)
           /\ n1 >= 1
           /\ OccursAt(name, <<"-">>, p1 + n1)
           /\ n2 >= 1
           /\ OccursAt(name, <<"-">>, p2 + n2)
           /\ n3 >= 1
        THEN [matched |-> TRUE,
              g1 |-> SubSeq(name, p1, p1 + n1 - 1),
              g2 |-> SubSeq(name, p2, p2 + n2 - 1),
              g3 |-> SubSeq(name, p3, p3 + n3 - 1),
              g4 |-> IF p4 <= Len(name) /\ name[p4] \in Upper
                     THEN <<name[p4]>> ELSE <<>>]
        ELSE [matched |-> FALSE]

\* the variant letter matched but not returned
parse_filename_drop_suffix(fname) ==
    LET root == splitext(fname)[1]
        name_without_ext ==
            IF endswith(root, S_annotations)
            THEN SubSeq(root, 1, Len(root) - 12)
            ELSE root
        match == re_match(name_without_ext)
    IN  IF match.matched
        THEN [ok |-> TRUE, site |-> match.g1, patient_id |-> match.g2,
              age |-> int(match.g3), suffix |-> <<>>]
        ELSE [ok |-> FALSE, error |-> "ValueError", message |-> fname]

parse_filename(fname) ==
    LET root == splitext(fname)[1]
        name_without_ext ==
            IF endswith(root, S_annotations)
            THEN SubSeq(root, 1, Len(root) - 12)
            ELSE root
        match == re_match(name_without_ext)
    IN  IF match.matched
        THEN [ok |-> TRUE, site |-> match.g1, patient_id |-> match.g2,
              age |-> int(match.g3), suffix |-> match.g4]
        ELSE [ok |-> FALSE, error |-> "ValueError", message |-> fname]

(***************************************************************************)
(* reorganize_to_bids.get_files_by_patient                                 *)
(***************************************************************************)
\* key lookup in an insertion-ordered dict, modelled as a sequence of
\* [patient_id, files] entries; 0 when the key is absent
KeyIndex(d, k) ==
    IF \E i \in 1..Len(d) : d[i].patient_id = k
    THEN CHOOSE i \in 1..Len(d) : d[i].patient_id = k
    ELSE 0

\* files_by_patient[patient_id].append(info) on a defaultdict(list)
dict_append(d, k, info) ==
    LET i == KeyIndex(d, k)
    IN  IF i = 0
        THEN Append(d, [patient_id |-> k, files |-> <<info>>])
        ELSE [d EXCEPT ![i].files = Append(@, info)]

\* the allow-list test left out
in_patient_identifiers_any(patient_id, allow) == TRUE

\* is the patient id in the allow-list
in_patient_identifiers(patient_id, allow) == patient_id \in allow

\* one iteration of the loop over os.listdir(input_dir); st = [d, warnings]
list_one(st, fname, allow) ==
    IF ~(endswith(fname, S_edf) \/ endswith(fname, S_xml)) THEN st
    ELSE LET r == parse_filename(fname)
         IN  IF ~r.ok
             THEN [st EXCEPT !.warnings = @ \cup {r.message}]
             ELSE IF in_patient_identifiers(r.patient_id, allow)
             THEN [st EXCEPT !.d = dict_append(@, r.patient_id,
                      [filename |-> fname, site |-> r.site, age |-> r.age,
                       suffix |-> r.suffix,
                       extension |-> splitext(fname)[2]])]
             ELSE st

RECURSIVE list_all(_, _, _)
list_all(st, listing, allow) ==
    IF listing = <<>> THEN st
    ELSE list_all(list_one(st, Head(listing), allow), Tail(listing), allow)

\* listing is os.listdir(input_dir) in the order the OS returns it
get_files_by_patient(listing, allow) ==
    list_all([d |-> <<>>, warnings |-> {}], listing, allow)

(***************************************************************************)
(* reorganize_to_bids.create_bids_structure                                *)
(***************************************************************************)
\* sorted(set of integers) as a sequence
RECURSIVE sorted(_)
sorted(S) ==
    IF S = {} THEN <<>>
    ELSE LET m == CHOOSE x \in S : \A y \in S : x <= y
         IN  <<m>> \o sorted(S \ {m})

\* the elements of a list that satisfy age = a, in list order
RECURSIVE of_age(_, _)
of_age(files, a) ==
    IF files = <<>> THEN <<>>
    ELSE IF Head(files).age = a THEN <<Head(files)>> \o of_age(Tail(files), a)
    ELSE of_age(Tail(files), a)

dataset_name(patient_id) == S_PRV \o patient_id

\* base_path / session / "eeg", relative to output_dir
session_path(patient_id, age) ==
    << dataset_name(patient_id), S_primary,
       S_sub \o dataset_name(patient_id),
       S_ses_visit_m \o str(age), S_eeg >>

\* the annotation branch left out: every copy is named .edf
new_filename_edf_only(patient_id, age, extension) ==
    S_sub \o dataset_name(patient_id) \o <<"-">> \o str(age) \o S_edf

new_filename(patient_id, age, extension) ==
    IF extension = S_xml
    THEN S_sub \o dataset_name(patient_id) \o <<"-">> \o str(age) \o S_xml
    ELSE S_sub \o dataset_name(patient_id) \o <<"-">> \o str(age) \o S_edf

dst_file(patient_id, info) ==
    Append(session_path(patient_id, info.age),
           new_filename(patient_id, info.age, info.extension))

\* every prefix of a path, the path itself included
Ancestors(path) == { SubSeq(path, 1, k) : k \in 1..Len(path) }

\* mkdir without exist_ok: an existing directory is an error
mkdir_no_exist_ok(t, path) ==
    IF t.error # "none" THEN t
    ELSE IF path \in t.dirs THEN [t EXCEPT !.error = "FileExistsError"]
    ELSE [t EXCEPT !.dirs = @ \cup Ancestors(path)]

\* Path.mkdir(parents=True, exist_ok=True); t = [dirs, files, error]
mkdir(t, path) ==
    IF t.error # "none" THEN t
    ELSE [t EXCEPT !.dirs = @ \cup Ancestors(path)]

\* the bytes of a source file, identified by the file they come from
source_content(fname) == [kind |-> "copy", src |-> fname]

\* shutil.copy2(src_file, dst_file): fails when the source does not exist,
\* overwrites an existing destination
copy2(t, present, fname, dst) ==
    IF t.error # "none" THEN t
    ELSE IF fname \notin present
    THEN [t EXCEPT !.error = "FileNotFoundError"]
    ELSE [t EXCEPT !.files =
             [p \in (DOMAIN @) \cup {dst} |->
                 IF p = dst THEN source_content(fname) ELSE @[p]]]

\* the loop over files_by_age[age]
RECURSIVE copy_files(_, _, _, _)
copy_files(t, present, patient_id, infos) ==
    IF infos = <<>> THEN t
    ELSE copy_files(copy2(t, present, Head(infos).filename,
                          dst_file(patient_id, Head(infos))),
                    present, patient_id, Tail(infos))

\* the loop over ages
RECURSIVE build_ages(_, _, _, _, _)
build_ages(t, present, patient_id, files, ages) ==
    IF ages = <<>> THEN t
    ELSE build_ages(
            copy_files(mkdir(t, session_path(patient_id, Head(ages))),
                       present, patient_id, of_age(files, Head(ages))),
            present, patient_id, files, Tail(ages))

\* the loop over files_by_patient.items()
RECURSIVE build_patients(_, _, _)
build_patients(t, present, d) ==
    IF d = <<>> THEN t
    ELSE build_patients(
            build_ages(t, present, Head(d).patient_id, Head(d).files,
                sorted({Head(d).files[k].age : k \in 1..Len(Head(d).files)})),
            present, Tail(d))

\* an exception leaves the loops at the first failing call
create_bids_structure(d, present, dirs, files) ==
    build_patients([dirs |-> dirs, files |-> files, error |-> "none"],
                   present, d)

(***************************************************************************)
(* generate_bids_sidecars.find_bids_path                                   *)
(***************************************************************************)
\* names of the entries directly under directory p
Children(entries, p) ==
    { e[Len(p) + 1] :
        e \in { x \in entries : Len(x) > Len(p) /\ SubSeq(x, 1, Len(p)) = p } }

\* the suffix of the pattern left out
glob_prefix_only(entries, p, prefix, suffix) ==
    { n \in Children(entries, p) : startswith(n, prefix) }

\* Path.glob(prefix + "*" + suffix) on directory p
glob(entries, p, prefix, suffix) ==
    { n \in Children(entries, p) :
        /\ Len(n) >= Len(prefix) + Len(suffix)
        /\ startswith(n, prefix)
        /\ endswith(n, suffix) }

\* dataset_dir.name.replace("PRV-", "")
patient_of(dataset) == remove_all(dataset, S_PRV)

\* session_dir.name.replace("ses-visit", "").replace("m", "")
age_of(session) == remove_all(remove_all(session, S_ses_visit), S_m)

subject_dir_of(dataset) ==
    << dataset, S_primary, S_sub \o patient_of(dataset) >>

\* does the scanner append a record for this session directory
has_record(entries, session_dir) ==
    /\ Append(session_dir, S_eeg) \in entries
    /\ glob(entries, Append(session_dir, S_eeg), <<>>, S_edf) # {}

\* the session directories the two nested glob loops visit
session_dirs(entries) ==
    UNION { { Append(subject_dir_of(ds), sn) :
                sn \in glob(entries, subject_dir_of(ds), S_ses_visit, S_m) } :
            ds \in { x \in glob(entries, <<>>, S_PRV, <<>>) :
                        subject_dir_of(x) \in entries } }

\* the record appended for a session directory, given the .edf file that
\* came first in the glob
record_of(session_dir, edf_name) ==
    [patient_id |-> patient_of(session_dir[1]),
     age |-> age_of(session_dir[4]),
     subject_dir |-> SubSeq(session_dir, 1, 3),
     session_dir |-> session_dir,
     eeg_dir |-> Append(session_dir, S_eeg),
     edf_file |-> session_dir \o <<S_eeg, edf_name>>]

\* all lists find_bids_path can return: glob yields directory entries in
\* an order the file system chooses, so the order of the datasets, of the
\* sessions of one dataset and the first .edf file are not determined
find_bids_path(dirs, files) ==
    LET entries == dirs \cup DOMAIN files
        found == { sd \in session_dirs(entries) : has_record(entries, sd) }
        n == Cardinality(found)
        edfs(sd) == glob(entries, Append(sd, S_eeg), <<>>, S_edf)
        orders == { o \in [1..n -> found] :
                      /\ \A i, j \in 1..n : i # j => o[i] # o[j]
                      /\ \A i, j, k \in 1..n :
                            (i < j /\ j < k /\ o[i][1] = o[k][1])
                                => o[j][1] = o[i][1] }
        picks == { f \in [found -> UNION { edfs(sd) : sd \in found }] :
                      \A sd \in found : f[sd] \in edfs(sd) }
    IN  { [i \in 1..n |-> record_of(o[i], f[o[i]])] :
            o \in orders, f \in picks }

(***************************************************************************)
(* sidecar/channelsTSV.py: ChannelsTSV.determine_channel_type              *)
(***************************************************************************)
LowerLetters == <<"a", "b", "c", "d", "e", "f", "g", "h", "i", "j", "k", "l",
                  "m", "n", "o", "p", "q", "r", "s", "t", "u", "v", "w", "x",
                  "y", "z">>

UpperLetters == <<"A", "B", "C", "D", "E", "F", "G", "H", "I", "J", "K", "L",
                  "M", "N", "O", "P", "Q", "R", "S", "T", "U", "V", "W", "X",
                  "Y", "Z">>

\* str.upper()
upper(s) ==
    [k \in 1..Len(s) |->
        IF \E n \in 1..Len(LowerLetters) : LowerLetters[n] = s[k]
        THEN UpperLetters[CHOOSE n \in 1..Len(LowerLetters) :
                              LowerLetters[n] = s[k]]
        ELSE s[k]]

\* keyword in s
contains(s, keyword) == \E i \in 1..Len(s) : OccursAt(s, keyword, i)

eeg_channels ==
    {
      <<"F", "P", "1">>, <<"F", "3">>, <<"C", "3">>, <<"P", "3">>,
      <<"O", "1">>, <<"F", "P", "2">>, <<"F", "4">>, <<"C", "4">>,
      <<"P", "4">>, <<"O", "2">>, <<"F", "7">>, <<"T", "3">>, <<"T", "7">>,
      <<"T", "5">>, <<"P", "7">>, <<"F", "8">>, <<"T", "4">>, <<"T", "8">>,
      <<"T", "6">>, <<"P", "8">>, <<"F", "Z">>, <<"C", "Z">>, <<"P", "Z">>,
      <<"A", "1">>, <<"A", "2">> }

\* determine_channel_type with the EOG test placed before the ECG test
determine_channel_type_eog_first(channel_name) ==
    LET channel_upper == upper(channel_name)
    IN  IF channel_upper \in eeg_channels THEN "EEG"
        ELSE IF contains(channel_upper, <<"E", "O", "G">>) THEN "EOG"
        ELSE IF \/ contains(channel_upper, <<"E", "K", "G">>)
                \/ contains(channel_upper, <<"E", "C", "G">>) THEN "ECG"
        ELSE IF \/ contains(channel_upper, <<"E", "M", "G">>)
                \/ contains(channel_upper, <<"M", "U", "S", "C">>) THEN "EMG"
        ELSE "MISC"

determine_channel_type(channel_name) ==
    LET channel_upper == upper(channel_name)
    IN  IF channel_upper \in eeg_channels THEN "EEG"
        ELSE IF \/ contains(channel_upper, <<"E", "K", "G">>)
                \/ contains(channel_upper, <<"E", "C", "G">>) THEN "ECG"
        ELSE IF contains(channel_upper, <<"E", "O", "G">>) THEN "EOG"
        ELSE IF \/ contains(channel_upper, <<"E", "M", "G">>)
                \/ contains(channel_upper, <<"M", "U", "S", "C">>) THEN "EMG"
        ELSE "MISC"

(***************************************************************************)
(* generate_bids_sidecars.extract_edf_metadata / extract_edf_channels.     *)
(* An EDF file is [readable, labels, samples, duration, rate]: whether     *)
(* EdfReader opens it, its signal labels, the sample count of a signal,    *)
(* the file duration and the header sampling rate.  Field values carry     *)
(* their JSON type.                                                        *)
(***************************************************************************)
String(v) == [type |-> "string", v |-> v]
Integer(v) == [type |-> "integer", v |-> v]
Number(v) == [type |-> "number", v |-> v]
Object(v) == [type |-> "object", v |-> v]

\* number of labels classified as channel type ty
count_type(labels, ty) ==
    Cardinality({ i \in 1..Len(labels) :
                    determine_channel_type(labels[i]) = ty })

\* reader: can pyedflib be imported.  total_samples / duration is a float
\* division; the model's files have durations that divide the sample count.
extract_edf_metadata(reader, edf) ==
    IF ~reader
    THEN [SamplingFrequency |-> Integer(2000),
          RecordingDuration |-> Integer(0),
          EEGChannelCount |-> Integer(0),
          ECGChannelCount |-> Integer(0),
          EMGChannelCount |-> Integer(0),
          EOGChannelCount |-> Integer(0),
          MiscChannelCount |-> Integer(0),
          TriggerChannelCount |-> Integer(0)]
    ELSE IF ~edf.readable \/ edf.labels = <<>> \/ edf.duration = 0
    THEN <<>>
    ELSE [SamplingFrequency |-> Number(edf.samples \div edf.duration),
          RecordingDuration |-> Number(edf.duration),
          EEGChannelCount |-> Integer(count_type(edf.labels, "EEG")),
          ECGChannelCount |-> Integer(count_type(edf.labels, "ECG")),
          EMGChannelCount |-> Integer(count_type(edf.labels, "EMG")),
          EOGChannelCount |-> Integer(count_type(edf.labels, "EOG")),
          MiscChannelCount |-> Integer(count_type(edf.labels, "MISC")),
          TriggerChannelCount |-> Integer(0)]

placeholder_channels ==
    <<
      <<"F", "p", "1">>, <<"F", "p", "2">>, <<"F", "3">>, <<"F", "4">>,
      <<"C", "3">>, <<"C", "4">>, <<"P", "3">>, <<"P", "4">>, <<"O", "1">>,
      <<"O", "2">>, <<"F", "7">>, <<"F", "8">>, <<"T", "3">>, <<"T", "4">>,
      <<"T", "5">>, <<"T", "6">>, <<"F", "z">>, <<"C", "z">>, <<"P", "z">>,
      <<"E", "K", "G", "1">>, <<"E", "O", "G", "1">> >>

extract_edf_channels(reader, edf) ==
    IF ~reader
    THEN [i \in 1..Len(placeholder_channels) |->
             [name |-> placeholder_channels[i], sampling_frequency |-> 2000]]
    ELSE IF ~edf.readable THEN <<>>
    ELSE [i \in 1..Len(edf.labels) |->
             [name |-> edf.labels[i], sampling_frequency |-> edf.rate]]

(***************************************************************************)
(* sidecar/Sidecar.py, eegJSON.py, channelsTSV.py                          *)
(***************************************************************************)
\* excluded_fields with json_indent in the place of input_dir
excluded_fields_with_json_indent ==
    {"output_dir", "json_indent", "bids_path", "filename"}

excluded_fields == {"output_dir", "input_dir", "bids_path", "filename"}

\* {**fields, **defaults}: the defaults win
merge_defaults_win(defaults, fields) ==
    [k \in (DOMAIN defaults) \cup (DOMAIN fields) |->
        IF k \in DOMAIN defaults THEN defaults[k] ELSE fields[k]]

\* {**defaults, **fields}: the second mapping wins
merge(defaults, fields) ==
    [k \in (DOMAIN defaults) \cup (DOMAIN fields) |->
        IF k \in DOMAIN fields THEN fields[k] ELSE defaults[k]]

\* Sidecar.__init__ : self.data, self.paths, self.default_filename
Sidecar_init(fields, bids_path, fname) ==
    [data |-> [k \in (DOMAIN fields) \ excluded_fields |-> fields[k]],
     paths |-> [bids_path |-> bids_path],
     default_filename |-> fname]

EegJSON_REQUIRED_FIELDS ==
    {"TaskName", "TaskDescription", "EEGReference", "EEGGround",
     "SamplingFrequency", "PowerLineFrequency", "SoftwareFilters"}

EegJSON_RECOMMENDED_FIELDS ==
    {"InstitutionName", "Manufacturer", "EEGChannelCount", "ECGChannelCount",
     "EMGChannelCount", "EOGChannelCount", "MiscChannelCount",
     "TriggerChannelCount", "RecordingDuration", "RecordingType",
     "EEGPlacementScheme", "HardwareFilters"}

EegJSON_OPTIONAL_FIELDS ==
    {"ManufacturerModelName", "SubjectArtefactDescription", "Impedance"}

EegJSON_DEFAULTS ==
    [TaskName |-> String("PREVeNT Study EEG"),
     TaskDescription |-> String("All video EEG studies ..."),
     EEGReference |-> String("Slightly anterior and slightly left of Cz"),
     EEGGround |-> String("slightly anterior and slightly right of Cz"),
     PowerLineFrequency |-> Integer(60),
     SoftwareFilters |-> Object("Anti-aliasing filter"),
     Manufacturer |-> String("n/a"),
     RecordingType |-> String("continuous"),
     EEGPlacementScheme |-> String("n/a"),
     HardwareFilters |-> Object("ADC's decimation filter"),
     ManufacturerModelName |-> String("n/a"),
     SubjectArtefactDescription |-> String("n/a")]

\* SCHEMA["properties"]: type, minimum (when has_min) and enum (when not {})
Prop(type, has_min, enum) == [type |-> type, has_min |-> has_min, enum |-> enum]

EegJSON_SCHEMA_properties ==
    [TaskName |-> Prop("string", FALSE, {}),
     TaskDescription |-> Prop("string", FALSE, {}),
     EEGReference |-> Prop("string", FALSE, {}),
     EEGGround |-> Prop("string", FALSE, {}),
     SamplingFrequency |-> Prop("number", TRUE, {}),
     PowerLineFrequency |-> Prop("number", FALSE, {50, 60}),
     SoftwareFilters |-> Prop("object", FALSE, {}),
     InstitutionName |-> Prop("string", FALSE, {}),
     Manufacturer |-> Prop("string", FALSE, {}),
     EEGChannelCount |-> Prop("integer", TRUE, {}),
     ECGChannelCount |-> Prop("integer", TRUE, {}),
     EMGChannelCount |-> Prop("integer", TRUE, {}),
     EOGChannelCount |-> Prop("integer", TRUE, {}),
     MiscChannelCount |-> Prop("integer", TRUE, {}),
     TriggerChannelCount |-> Prop("integer", TRUE, {}),
     RecordingDuration |-> Prop("number", TRUE, {}),
     RecordingType |-> Prop("string", FALSE,
                            {"continuous", "discontinuous", "epoched"}),
     EEGPlacementScheme |-> Prop("string", FALSE, {}),
     HardwareFilters |-> Prop("object", FALSE, {}),
     ManufacturersModelName |-> Prop("string", FALSE, {}),
     SubjectArtefactDescription |-> Prop("string", FALSE, {}),
     Impedance |-> Prop("number", TRUE, {})]

EegJSON_SCHEMA_required ==
    {"TaskName", "SamplingFrequency", "PowerLineFrequency", "EEGReference"}

\* conforms without the "minimum" keyword
conforms_no_minimum(val, prop) ==
    LET numeric == val.type \in {"integer", "number"}
    IN  /\ IF prop.type \in {"integer", "number"} THEN numeric
           ELSE val.type = prop.type
        /\ prop.enum # {} => val.v \in prop.enum

\* does a value conform to a property schema.  The model's numbers are
\* whole, so a "number" value is also a JSON-schema integer.
conforms(val, prop) ==
    LET numeric == val.type \in {"integer", "number"}
    IN  /\ IF prop.type \in {"integer", "number"} THEN numeric
           ELSE val.type = prop.type
        /\ (prop.has_min /\ numeric) => val.v >= 0
        /\ prop.enum # {} => val.v \in prop.enum

\* the keys Draft202012Validator(SCHEMA).iter_errors reports
schema_errors(data) ==
    { k \in EegJSON_SCHEMA_required : k \notin DOMAIN data }
    \cup { k \in (DOMAIN data) \cap (DOMAIN EegJSON_SCHEMA_properties) :
               ~conforms(data[k], EegJSON_SCHEMA_properties[k]) }

\* EegJSON.__init__
EegJSON_init(fields, bids_path, fname) ==
    Sidecar_init(merge(EegJSON_DEFAULTS, fields), bids_path, fname)

\* EegJSON.validate raising on extra fields instead of warning
EegJSON_validate_rejects_extras(sc) ==
    IF schema_errors(sc.data) # {} THEN "ValueError"
    ELSE IF EegJSON_REQUIRED_FIELDS \ DOMAIN sc.data # {} THEN "ValueError"
    ELSE IF (DOMAIN sc.data) \ (EegJSON_REQUIRED_FIELDS
                                  \cup EegJSON_RECOMMENDED_FIELDS
                                  \cup EegJSON_OPTIONAL_FIELDS) # {}
    THEN "ValueError"
    ELSE "ok"

\* EegJSON.validate: "ok" for True, else the exception raised
EegJSON_validate(sc) ==
    IF schema_errors(sc.data) # {} THEN "ValueError"
    ELSE IF EegJSON_REQUIRED_FIELDS \ DOMAIN sc.data # {} THEN "ValueError"
    ELSE "ok"

\* the field names in the message of the ValueError that EegJSON.validate
\* raises: "{n} schema validation errors" carries a count and no name,
\* "Missing REQUIRED fields: [...]" carries the sorted missing names
EegJSON_validate_named(sc) ==
    IF schema_errors(sc.data) # {} THEN {}
    ELSE EegJSON_REQUIRED_FIELDS \ DOMAIN sc.data

\* the warnings EegJSON.validate logs when it returns True
EegJSON_validate_warnings(sc) ==
    [missing_recommended |-> EegJSON_RECOMMENDED_FIELDS \ DOMAIN sc.data,
     extras |-> (DOMAIN sc.data) \ (EegJSON_REQUIRED_FIELDS
                                      \cup EegJSON_RECOMMENDED_FIELDS
                                      \cup EegJSON_OPTIONAL_FIELDS)]

ChannelsTSV_REQUIRED_FIELDS == {"name", "type", "units", "sampling_frequency"}

ChannelsTSV_RECOMMENDED_FIELDS == {"low_cutoff", "high_cutoff", "notch"}

ChannelsTSV_OPTIONAL_FIELDS == {"reference", "status", "status_description"}

\* ChannelsTSV.__init__ : the list is stored as it is
ChannelsTSV_init(rows, bids_path, fname) ==
    [data |-> rows, paths |-> [bids_path |-> bids_path],
     default_filename |-> fname]

\* ChannelsTSV.validate
ChannelsTSV_validate(sc) ==
    IF sc.data = <<>> THEN "ValueError"
    ELSE IF \E i \in 1..Len(sc.data) :
                DOMAIN sc.data[i] # DOMAIN sc.data[1] THEN "ValueError"
    ELSE IF \E i \in 1..Len(sc.data) :
                ChannelsTSV_REQUIRED_FIELDS \ DOMAIN sc.data[i] # {}
         THEN "ValueError"
    ELSE "ok"

\* the row index and the column names in the message of the ValueError that
\* ChannelsTSV.validate raises on a non-empty list: "Row {i} has inconsistent
\* columns: {row keys} vs {first keys}" for the first row that differs from
\* row 0, else "Row {i} ... missing REQUIRED fields: {missing}" for the first
\* row that lacks one.  Row indices count from 0 as enumerate does.
ChannelsTSV_validate_error(sc) ==
    LET n == Len(sc.data)
        differs(i) == DOMAIN sc.data[i] # DOMAIN sc.data[1]
        lacks(i) == ChannelsTSV_REQUIRED_FIELDS \ DOMAIN sc.data[i] # {}
        first(P(_)) == CHOOSE i \in 1..n : P(i) /\ \A j \in 1..(i - 1) : ~P(j)
    IN  IF \E i \in 1..n : differs(i)
        THEN [row |-> first(differs) - 1,
              columns |-> DOMAIN sc.data[first(differs)] \cup DOMAIN sc.data[1]]
        ELSE [row |-> first(lacks) - 1,
              columns |-> ChannelsTSV_REQUIRED_FIELDS
                              \ DOMAIN sc.data[first(lacks)]]

SessionsTSV_REQUIRED_FIELDS == {"session", "age_in_months", "visit_type"}

\* SessionsTSV.__init__ : the list is stored as it is
SessionsTSV_init(rows, bids_path, fname) ==
    [data |-> rows, paths |-> [bids_path |-> bids_path],
     default_filename |-> fname]

\* SessionsTSV.validate
SessionsTSV_validate(sc) ==
    IF sc.data = <<>> THEN "ValueError"
    ELSE IF \E i \in 1..Len(sc.data) :
                DOMAIN sc.data[i] # DOMAIN sc.data[1] THEN "ValueError"
    ELSE IF \E i \in 1..Len(sc.data) :
                SessionsTSV_REQUIRED_FIELDS \ DOMAIN sc.data[i] # {}
         THEN "ValueError"
    ELSE "ok"

\* SessionsTSV.validate's message with rows counted from 1
SessionsTSV_validate_error_from_one(sc) ==
    LET n == Len(sc.data)
        differs(i) == DOMAIN sc.data[i] # DOMAIN sc.data[1]
        lacks(i) == SessionsTSV_REQUIRED_FIELDS \ DOMAIN sc.data[i] # {}
        first(P(_)) == CHOOSE i \in 1..n : P(i) /\ \A j \in 1..(i - 1) : ~P(j)
    IN  IF \E i \in 1..n : differs(i)
        THEN [row |-> first(differs),
              columns |-> DOMAIN sc.data[first(differs)] \cup DOMAIN sc.data[1]]
        ELSE [row |-> first(lacks),
              columns |-> SessionsTSV_REQUIRED_FIELDS
                              \ DOMAIN sc.data[first(lacks)]]

\* the row index and the column names in the message of the ValueError that
\* SessionsTSV.validate raises on a non-empty list
SessionsTSV_validate_error(sc) ==
    LET n == Len(sc.data)
        differs(i) == DOMAIN sc.data[i] # DOMAIN sc.data[1]
        lacks(i) == SessionsTSV_REQUIRED_FIELDS \ DOMAIN sc.data[i] # {}
        first(P(_)) == CHOOSE i \in 1..n : P(i) /\ \A j \in 1..(i - 1) : ~P(j)
    IN  IF \E i \in 1..n : differs(i)
        THEN [row |-> first(differs) - 1,
              columns |-> DOMAIN sc.data[first(differs)] \cup DOMAIN sc.data[1]]
        ELSE [row |-> first(lacks) - 1,
              columns |-> SessionsTSV_REQUIRED_FIELDS
                              \ DOMAIN sc.data[first(lacks)]]

\* to_tsv with a DictWriter that drops the keys outside the header
to_tsv_ignores_extras(data) ==
    IF data = <<>> THEN [error |-> "ValueError"]
    ELSE [error |-> "none", header |-> DOMAIN data[1], rows |-> data]

\* Sidecar.to_tsv: csv.DictWriter with the first row's keys as the header
\* raises for a row with a key outside the header
to_tsv(data) ==
    IF data = <<>> THEN [error |-> "ValueError"]
    ELSE IF \E i \in 1..Len(data) : DOMAIN data[i] \ DOMAIN data[1] # {}
    THEN [error |-> "ValueError"]
    ELSE [error |-> "none", header |-> DOMAIN data[1], rows |-> data]

\* Sidecar.save(output_dir=output_base_dir, flat=False) on the tree
\* t = [dirs, files, error]; paths are relative to the output directory.
\* The file is opened for writing before its text is produced.
Sidecar_save(sc, file_format, t) ==
    LET file_path == Append(sc.paths.bids_path, sc.default_filename)
        made == t.dirs \cup Ancestors(sc.paths.bids_path)
        put(content) ==
            [p \in (DOMAIN t.files) \cup {file_path} |->
                IF p = file_path THEN content ELSE t.files[p]]
    IN  IF file_format = "tsv"
        THEN IF to_tsv(sc.data).error = "none"
             THEN [dirs |-> made, error |-> "none",
                   files |-> put([kind |-> "tsv",
                                  header |-> to_tsv(sc.data).header,
                                  rows |-> to_tsv(sc.data).rows])]
             ELSE [dirs |-> made, error |-> to_tsv(sc.data).error,
                   files |-> put([kind |-> "empty"])]
        ELSE [dirs |-> made, error |-> "none",
              files |-> put([kind |-> "json", data |-> sc.data])]

(***************************************************************************)
(* Sidecar.__init__ and Sidecar.save with every keyword argument.  A path  *)
(* is a sequence of components; None and "" are the empty sequence.        *)
(***************************************************************************)
\* EegJSON.default_bids_path = "output_sidecars/"
EegJSON_default_bids_path ==
    << <<"o", "u", "t", "p", "u", "t", "_", "s", "i", "d", "e", "c", "a",
         "r", "s">> >>

\* EegJSON.default_filename = "eeg.json"
EegJSON_default_filename == <<"e", "e", "g", ".", "j", "s", "o", "n">>

\* "output/json"
default_output_dir ==
    << <<"o", "u", "t", "p", "u", "t">>, <<"j", "s", "o", "n">> >>

json_indent == 2

\* Sidecar.__init__(fields, **kwargs) of a class with the given defaults
Sidecar_new(fields, kwargs, default_bids_path, default_filename) ==
    [data |-> [k \in (DOMAIN fields) \ excluded_fields |-> fields[k]],
     paths |-> [k \in ({"bids_path"} \cup DOMAIN kwargs)
                         \cap excluded_fields |->
                   IF k \in DOMAIN kwargs THEN kwargs[k]
                   ELSE default_bids_path],
     default_filename |-> IF "filename" \in DOMAIN kwargs
                          THEN kwargs.filename ELSE default_filename,
     json_indent |-> IF "json_indent" \in DOMAIN kwargs
                     THEN kwargs.json_indent ELSE json_indent]

\* EegJSON(fields, **kwargs)
EegJSON_new(fields, kwargs) ==
    Sidecar_new(merge(EegJSON_DEFAULTS, fields), kwargs,
                EegJSON_default_bids_path, EegJSON_default_filename)

\* save taking the directory given at construction before its argument
save_prefers_constructor_dir(sc, output_dir, flat, file_format, t) ==
    LET out == IF "output_dir" \in DOMAIN sc.paths THEN sc.paths.output_dir
               ELSE IF output_dir # <<>> THEN output_dir
               ELSE default_output_dir
        file_path == IF flat THEN Append(out, sc.default_filename)
                     ELSE Append(out \o sc.paths.bids_path,
                                 sc.default_filename)
        saved == Sidecar_save([sc EXCEPT !.paths =
                                  [bids_path |-> SubSeq(file_path, 1,
                                                    Len(file_path) - 1)]],
                              file_format, t)
    IN  [dirs |-> saved.dirs, files |-> saved.files, error |-> saved.error,
         path |-> file_path]

\* Sidecar.save(output_dir, flat, file_format=...) on the tree t: the
\* directory is resolved, made with exist_ok, and the file written as
\* Sidecar_save writes it; the path is returned
save(sc, output_dir, flat, file_format, t) ==
    LET out == IF output_dir # <<>> THEN output_dir
               ELSE IF "output_dir" \in DOMAIN sc.paths
               THEN sc.paths.output_dir
               ELSE default_output_dir
        file_path == IF flat THEN Append(out, sc.default_filename)
                     ELSE Append(out \o sc.paths.bids_path,
                                 sc.default_filename)
        saved == Sidecar_save([sc EXCEPT !.paths =
                                  [bids_path |-> SubSeq(file_path, 1,
                                                    Len(file_path) - 1)]],
                              file_format, t)
    IN  [dirs |-> saved.dirs, files |-> saved.files, error |-> saved.error,
         path |-> file_path]

\* a validate that uses up the payload it checks
after_validate_clears_data(sc) == [sc EXCEPT !.data = <<>>]

\* what validate leaves of the sidecar it was called on: no validate method
\* assigns to self.data or self.paths
after_validate(sc) == sc

(***************************************************************************)
(* generate_bids_sidecars.handle_eeg_json / handle_channels_tsv            *)
(***************************************************************************)
S_task_prv_eeg_json ==
    <<"_", "t", "a", "s", "k", "-", "p", "r", "v", "_", "e", "e", "g",
      ".", "j", "s", "o", "n">>

S_task_prv_channels_tsv ==
    <<"_", "t", "a", "s", "k", "-", "p", "r", "v", "_", "c", "h", "a", "n",
      "n", "e", "l", "s", ".", "t", "s", "v">>

\* f"PRV-{patient_id}/primary/sub-{patient_id}/ses-visit{age}m/eeg/"
session_bids_path(patient_id, age) ==
    << S_PRV \o patient_id, S_primary, S_sub \o patient_id,
       S_ses_visit \o age \o S_m, S_eeg >>

\* f"sub-{patient_id}_ses-visit{age}m_task-prv_eeg.json"
eeg_json_filename(patient_id, age) ==
    S_sub \o patient_id \o <<"_">> \o S_ses_visit \o age \o S_m
          \o S_task_prv_eeg_json

\* f"sub-{patient_id}_ses-visit{age}m_task-prv_channels.tsv"
channels_tsv_filename(patient_id, age) ==
    S_sub \o patient_id \o <<"_">> \o S_ses_visit \o age \o S_m
          \o S_task_prv_channels_tsv

\* handle_eeg_json calling save before validate
handle_eeg_json_save_first(path_info, reader, dirs, files) ==
    LET edf_data == extract_edf_metadata(reader, files[path_info.edf_file].edf)
        eeg_sidecar ==
            EegJSON_init(edf_data,
                session_bids_path(path_info.patient_id, path_info.age),
                eeg_json_filename(path_info.patient_id, path_info.age))
        saved == Sidecar_save(eeg_sidecar, "json",
                              [dirs |-> dirs, files |-> files,
                               error |-> "none"])
    IN  [ok |-> saved.error = "none" /\ EegJSON_validate(eeg_sidecar) = "ok",
         dirs |-> saved.dirs, files |-> saved.files,
         validate |-> EegJSON_validate(eeg_sidecar), save_called |-> TRUE]

\* handle_eeg_json(path_info, output_base_dir): what it returned, the tree
\* it left, what validate returned or raised, whether save was called
handle_eeg_json(path_info, reader, dirs, files) ==
    LET edf_data == extract_edf_metadata(reader, files[path_info.edf_file].edf)
        eeg_sidecar ==
            EegJSON_init(edf_data,
                session_bids_path(path_info.patient_id, path_info.age),
                eeg_json_filename(path_info.patient_id, path_info.age))
        saved == Sidecar_save(eeg_sidecar, "json",
                              [dirs |-> dirs, files |-> files,
                               error |-> "none"])
    IN  IF EegJSON_validate(eeg_sidecar) # "ok"
        THEN [ok |-> FALSE, dirs |-> dirs, files |-> files,
              validate |-> EegJSON_validate(eeg_sidecar),
              save_called |-> FALSE]
        ELSE [ok |-> saved.error = "none",
              dirs |-> saved.dirs, files |-> saved.files,
              validate |-> "ok", save_called |-> TRUE]

\* the row handle_channels_tsv builds for one extracted channel
channel_row(channel_info) ==
    [name |-> channel_info.name,
     type |-> determine_channel_type(channel_info.name),
     units |-> "uV",
     sampling_frequency |-> channel_info.sampling_frequency,
     low_cutoff |-> 0,
     high_cutoff |-> 500,
     notch |-> "n/a"]

\* handle_channels_tsv(path_info, output_base_dir): [ok, dirs, files]
handle_channels_tsv(path_info, reader, dirs, files) ==
    LET channels_from_edf ==
            extract_edf_channels(reader, files[path_info.edf_file].edf)
        rows == [i \in 1..Len(channels_from_edf) |->
                    channel_row(channels_from_edf[i])]
        channels_sidecar ==
            ChannelsTSV_init(rows,
                session_bids_path(path_info.patient_id, path_info.age),
                channels_tsv_filename(path_info.patient_id, path_info.age))
        saved == Sidecar_save(channels_sidecar, "tsv",
                              [dirs |-> dirs, files |-> files,
                               error |-> "none"])
    IN  IF ChannelsTSV_validate(channels_sidecar) # "ok"
        THEN [ok |-> FALSE, dirs |-> dirs, files |-> files,
              validate |-> ChannelsTSV_validate(channels_sidecar),
              save_called |-> FALSE]
        ELSE [ok |-> saved.error = "none",
              dirs |-> saved.dirs, files |-> saved.files,
              validate |-> "ok", save_called |-> TRUE]

(***************************************************************************)
(* generate_bids_sidecars.handle_sessions_tsv                              *)
(***************************************************************************)
\* float(s) for the strings a session directory name can leave: digits with
\* at most one fractional digit; the value is kept in tenths.  Every other
\* string of the model's directory names (empty, letters, two dots) raises
\* ValueError.
float(s) ==
    LET dots == { i \in 1..Len(s) : s[i] = "." }
        whole == IF dots = {} THEN s
                 ELSE SubSeq(s, 1, (CHOOSE i \in dots : TRUE) - 1)
        frac == IF dots = {} THEN <<>>
                ELSE From(s, (CHOOSE i \in dots : TRUE) + 1)
    IN  IF /\ Cardinality(dots) <= 1
           /\ Len(whole) + Len(frac) > 0
           /\ Len(frac) <= 1
           /\ \A i \in 1..Len(whole) : whole[i] \in Digit
           /\ \A i \in 1..Len(frac) : frac[i] \in Digit
        THEN [ok |-> TRUE,
              tenths |-> 10 * (IF whole = <<>> THEN 0 ELSE int(whole))
                           + (IF frac = <<>> THEN 0 ELSE int(frac))]
        ELSE [ok |-> FALSE, tenths |-> 0]

\* sorted(sessions_data, key=lambda x: float(x['age'])): a stable sort
RECURSIVE sorted_sessions(_)
sorted_sessions(sessions_data) ==
    IF sessions_data = <<>> THEN <<>>
    ELSE LET n == Len(sessions_data)
             key(i) == float(sessions_data[i].age).tenths
             least == CHOOSE i \in 1..n :
                         /\ \A j \in 1..n : key(i) <= key(j)
                         /\ \A j \in 1..(i - 1) : key(j) # key(i)
         IN  <<sessions_data[least]>>
                 \o sorted_sessions([k \in 1..(n - 1) |->
                        IF k < least THEN sessions_data[k]
                        ELSE sessions_data[k + 1]])

\* visit_type without the baseline window
visit_type_first_any_age(i, age_tenths) ==
    IF i = 0 THEN "baseline" ELSE "followup"

\* the visit_type of row i (from 0) of the sorted sessions
visit_type(i, age_tenths) ==
    IF i = 0 /\ 15 <= age_tenths /\ age_tenths <= 60
    THEN "baseline" ELSE "followup"

\* the row built for the i-th sorted session; int(age) truncates
session_row(i, session) ==
    LET age == float(session.age).tenths
    IN  [session |-> S_ses_visit \o str(age \div 10) \o S_m,
         visit_type |-> visit_type(i - 1, age),
         age_in_months |-> age]

S_sessions_tsv ==
    <<"_", "s", "e", "s", "s", "i", "o", "n", "s", ".", "t", "s", "v">>

\* f"PRV-{patient_id}/primary/sub-{patient_id}/"
subject_bids_path(patient_id) ==
    << S_PRV \o patient_id, S_primary, S_sub \o patient_id >>

\* f"sub-{patient_id}_sessions.tsv"
sessions_tsv_filename(patient_id) == S_sub \o patient_id \o S_sessions_tsv

\* handle_sessions_tsv(patient_id, sessions_data, output_base_dir).  The
\* sort runs before the try block: a ValueError of float() leaves the
\* function (raised), and nothing is written.
handle_sessions_tsv(patient_id, sessions_data, dirs, files) ==
    LET sorted_ == sorted_sessions(sessions_data)
        rows == [i \in 1..Len(sorted_) |-> session_row(i, sorted_[i])]
        sessions_sidecar ==
            SessionsTSV_init(rows, subject_bids_path(patient_id),
                             sessions_tsv_filename(patient_id))
        saved == Sidecar_save(sessions_sidecar, "tsv",
                              [dirs |-> dirs, files |-> files,
                               error |-> "none"])
    IN  IF \E i \in 1..Len(sessions_data) : ~float(sessions_data[i].age).ok
        THEN [ok |-> FALSE, raised |-> "ValueError", rows |-> <<>>,
              dirs |-> dirs, files |-> files,
              validate |-> "not called", save_called |-> FALSE]
        ELSE IF SessionsTSV_validate(sessions_sidecar) # "ok"
        THEN [ok |-> FALSE, raised |-> "none", rows |-> rows,
              dirs |-> dirs, files |-> files,
              validate |-> SessionsTSV_validate(sessions_sidecar),
              save_called |-> FALSE]
        ELSE [ok |-> saved.error = "none", raised |-> "none", rows |-> rows,
              dirs |-> saved.dirs, files |-> saved.files,
              validate |-> "ok", save_called |-> TRUE]

\* main: sessions_by_patient, a defaultdict filled in the order of pathes,
\* as a sequence of [patient_id, sessions]
RECURSIVE sessions_by_patient(_)
sessions_by_patient(found) ==
    IF found = <<>> THEN <<>>
    ELSE LET n == Len(found)
             before == sessions_by_patient(SubSeq(found, 1, n - 1))
             pid == found[n].patient_id
             entry == [age |-> found[n].age]
         IN  IF \E k \in 1..Len(before) : before[k].patient_id = pid
             THEN [k \in 1..Len(before) |->
                     IF before[k].patient_id = pid
                     THEN [before[k] EXCEPT !.sessions = Append(@, entry)]
                     ELSE before[k]]
             ELSE Append(before, [patient_id |-> pid, sessions |-> <<entry>>])

\* main: the loop that follows the loop of the given kind
next_kind_sessions_first(kind) ==
    IF kind = "eeg" THEN "sessions"
    ELSE IF kind = "sessions" THEN "channels"
    ELSE "summary"

next_kind(kind) ==
    IF kind = "eeg" THEN "channels"
    ELSE IF kind = "channels" THEN "sessions"
    ELSE "summary"

\* main's return value with "or" in the place of "and"
exit_status_any_kind_clean(t) ==
    IF t.failed_eeg = 0 \/ t.failed_channels = 0 \/ t.failed_sessions = 0
    THEN "0" ELSE "1"

\* main: return 0 if (failed_eeg == 0 and failed_channels == 0 and
\* failed_sessions == 0) else 1
exit_status(t) ==
    IF t.failed_eeg = 0 /\ t.failed_channels = 0 /\ t.failed_sessions = 0
    THEN "0" ELSE "1"

(***************************************************************************)
(* The builder run: reorganize_to_bids.main, followed by the scan of       *)
(* generate_bids_sidecars.main over the same output directory              *)
(***************************************************************************)
MaxInputFiles == 3
MaxRuns == 2
MaxRemoved == 1

P_4ZHY == <<"4", "Z", "H", "Y">>
P_B7 == <<"B", "7">>

N_15_edf == S_PRV \o <<"0", "0", "1", "-">> \o P_4ZHY \o <<"-", "1", "5">> \o S_edf
N_15_xml == S_PRV \o <<"0", "0", "1", "-">> \o P_4ZHY \o <<"-", "1", "5">>
                \o S_annotations \o S_xml
N_15A_edf == S_PRV \o <<"0", "0", "1", "-">> \o P_4ZHY \o <<"-", "1", "5", "A">> \o S_edf
N_18_edf == S_PRV \o <<"0", "0", "2", "-">> \o P_4ZHY \o <<"-", "1", "8">> \o S_edf
N_B7_edf == S_PRV \o <<"0", "0", "1", "-">> \o P_B7 \o <<"-", "0", "6">> \o S_edf
N_Q9_xml == S_PRV \o <<"0", "0", "1", "-", "Q", "9", "-", "3">> \o S_xml
N_bad_edf == S_PRV \o <<"0", "0", "1", "-">> \o P_4ZHY \o S_edf
N_15_txt == S_PRV \o <<"0", "0", "1", "-">> \o P_4ZHY \o <<"-", "1", "5", ".", "t", "x", "t">>

InputNames == {N_15_edf, N_15_xml, N_15A_edf, N_18_edf, N_B7_edf, N_Q9_xml,
               N_bad_edf, N_15_txt}

AllowLists == {{P_4ZHY, P_B7}, {P_4ZHY}}

\* the orders in which os.listdir can return the names of a directory
Listings(names) ==
    { l \in [1..Cardinality(names) -> names] :
        \A i, j \in 1..Cardinality(names) : i # j => l[i] # l[j] }

\* value of parsed before parse_filename has been called
NotCalled == [ok |-> FALSE, error |-> "not called", message |-> <<>>]

NoTally == [successful_eeg |-> 0, failed_eeg |-> 0,
            successful_channels |-> 0, failed_channels |-> 0,
            successful_sessions |-> 0, failed_sessions |-> 0]

(***************************************************************************)
(* sidecar/Sidecar.py: get_logger, and logger/setup_logger.py.  _logger is *)
(* a class attribute: reading cls._logger finds the attribute of cls or,   *)
(* when cls has none of its own, the one of Sidecar; assigning cls._logger *)
(* sets the attribute of cls.                                              *)
(***************************************************************************)
Classes == {"Sidecar", "EegJSON", "ChannelsTSV", "SessionsTSV"}

\* the logger object logging.getLogger("sidecar_data_generator") returns:
\* the logging module keeps one object per name
S_sidecar_data_generator == "sidecar_data_generator"

\* the class attributes after the class statements: Sidecar._logger = None,
\* the subclasses declare none
NoClassLogger ==
    [c \in Classes |-> IF c = "Sidecar" THEN "None" ELSE "inherited"]

\* the value of cls._logger
get_class_logger(attrs, cls) ==
    IF attrs[cls] # "inherited" THEN attrs[cls] ELSE attrs["Sidecar"]

\* setup_logger(name, log_dir): counts the run, attaches the console and
\* the file handler unless logger.hasHandlers(), returns the logger
setup_logger(lg) ==
    [setup_runs |-> lg.setup_runs + 1,
     handlers |-> IF lg.handlers > 0 THEN lg.handlers ELSE lg.handlers + 2,
     logger |-> S_sidecar_data_generator]

NoLogging == [setup_runs |-> 0, handlers |-> 0]

LoggerIdle ==
    /\ class_logger = NoClassLogger
    /\ logger_lock = 0
    /\ callers = <<>>
    /\ logging = NoLogging

ParseIdle == filename = <<>> /\ parsed = NotCalled

UnitIdle == unit_call = [op |-> "none"] /\ unit_result = NotCalled

BuildIdle ==
    /\ input_dir = {}
    /\ patient_identifiers = {}
    /\ files_by_patient = <<>>
    /\ warnings = {}
    /\ removed = 0
    /\ pc = "idle"
    /\ runs = 0
    /\ copy_error = "none"
    /\ tree_after_first = [dirs |-> {}, files |-> <<>>]

SidecarStart ==
    /\ pathes = <<>>
    /\ gpc = "start"
    /\ idx = 0
    /\ tally = NoTally
    /\ attempts = <<>>
    /\ exit_code = "running"

\* reorganize_to_bids.main starts on an empty output directory
Init ==
    /\ LoggerIdle
    /\ ParseIdle
    /\ UnitIdle
    /\ input_dir \in { S \in SUBSET InputNames : Cardinality(S) <= MaxInputFiles }
    /\ patient_identifiers \in AllowLists
    /\ files_by_patient = <<>>
    /\ warnings = {}
    /\ removed = 0
    /\ pc = "start"
    /\ runs = 0
    /\ copy_error = "none"
    /\ tree_after_first = [dirs |-> {}, files |-> <<>>]
    /\ fs_dirs = {}
    /\ fs_files = <<>>
    /\ reader_available \in BOOLEAN
    /\ SidecarStart

\* main: files_by_patient = get_files_by_patient(input_dir, patient_identifiers)
GetFilesByPatient ==
    /\ pc = "start"
    /\ \E listing \in Listings(input_dir) :
          LET r == get_files_by_patient(listing, patient_identifiers)
          IN  /\ files_by_patient' = r.d
              /\ warnings' = r.warnings
    /\ pc' = "listed"
    /\ UNCHANGED <<input_dir, patient_identifiers, removed, runs, copy_error,
                   tree_after_first>>
    /\ UNCHANGED <<parse_vars, unit_vars, logger_vars, tree_vars, sidecar_vars>>

\* environment: a source file disappears from the input directory after it
\* was listed and before it is copied
RemoveSource ==
    /\ pc = "listed"
    /\ removed < MaxRemoved
    /\ \E f \in input_dir : input_dir' = input_dir \ {f}
    /\ removed' = removed + 1
    /\ UNCHANGED <<patient_identifiers, files_by_patient, warnings, pc, runs,
                   copy_error, tree_after_first>>
    /\ UNCHANGED <<parse_vars, unit_vars, logger_vars, tree_vars, sidecar_vars>>

\* main: create_bids_structure(files_by_patient, input_dir, output_dir)
CreateBidsStructure ==
    /\ pc \in {"listed", "built"}
    /\ gpc = "start"
    /\ runs < MaxRuns
    /\ LET t == create_bids_structure(files_by_patient, input_dir,
                                      fs_dirs, fs_files)
       IN  /\ fs_dirs' = t.dirs
           /\ fs_files' = t.files
           /\ copy_error' = t.error
           /\ tree_after_first' =
                 IF runs = 0 THEN [dirs |-> t.dirs, files |-> t.files]
                 ELSE tree_after_first
    /\ runs' = runs + 1
    /\ pc' = "built"
    /\ UNCHANGED <<input_dir, patient_identifiers, files_by_patient, warnings,
                   removed>>
    /\ UNCHANGED <<parse_vars, unit_vars, logger_vars, sidecar_vars>>

\* generate_bids_sidecars.main: pathes = find_bids_path(output_dir), and the
\* early return when nothing was found
Discover ==
    /\ gpc = "start"
    /\ pc \in {"built", "idle"}
    /\ \E found \in find_bids_path(fs_dirs, fs_files) :
          /\ pathes' = found
          /\ gpc' = IF found = <<>> THEN "done" ELSE "eeg"
          /\ exit_code' = IF found = <<>> THEN "0" ELSE exit_code
    /\ idx' = 1
    /\ UNCHANGED <<reader_available, tally, attempts>>
    /\ UNCHANGED <<parse_vars, unit_vars, logger_vars, build_vars, tree_vars>>

Next ==
    \/ GetFilesByPatient
    \/ RemoveSource
    \/ CreateBidsStructure
    \/ Discover

Spec == Init /\ [][Next]_vars

(***************************************************************************)
(* The sidecar run: generate_bids_sidecars.main over an output directory   *)
(* that already holds recordings                                           *)
(***************************************************************************)
MaxTreeEntries == 3

S_rec_edf == <<"r", "e", "c">> \o S_edf
S_rec2_edf == <<"r", "e", "c", "2">> \o S_edf
S_notes_xml == <<"n", "o", "t", "e", "s">> \o S_xml

\* a session directory in the layout find_bids_path looks for
ScanDir(patient, session) ==
    << S_PRV \o patient, S_primary, S_sub \o patient, session, S_eeg >>

Ses15 == S_ses_visit \o <<"1", "5">> \o S_m
Ses18 == S_ses_visit \o <<"1", "8">> \o S_m
Ses6 == S_ses_visit \o <<"6">> \o S_m
Ses3 == S_ses_visit \o <<"3">> \o S_m
Ses1m2 == S_ses_visit \o <<"1", "m", "2">> \o S_m
SesNoAge == S_ses_visit \o S_m
SesX == S_ses_visit \o <<"x">> \o S_m

\* the entries an output directory may hold: recordings, a session whose
\* eeg directory has no recording, a session without eeg directory, a
\* session named with a second m, and a recording in the builder's layout
TreeEntries ==
    { [path |-> Append(ScanDir(P_4ZHY, Ses15), S_rec_edf), file |-> TRUE],
      [path |-> Append(ScanDir(P_4ZHY, Ses15), S_rec2_edf), file |-> TRUE],
      [path |-> Append(ScanDir(P_4ZHY, Ses18), S_notes_xml), file |-> TRUE],
      [path |-> SubSeq(ScanDir(P_B7, Ses6), 1, 4), file |-> FALSE],
      [path |-> Append(ScanDir(P_B7, Ses3), S_rec_edf), file |-> TRUE],
      [path |-> Append(ScanDir(P_B7, Ses1m2), S_rec_edf), file |-> TRUE],
      [path |-> dst_file(P_4ZHY, [age |-> 15, extension |-> S_edf]),
       file |-> TRUE] }

Labels_Fp1 == <<"F", "p", "1">>
Labels_EKG1 == <<"E", "K", "G", "1">>
Labels_X1 == <<"X", "1">>

\* what an .edf file may hold
EdfContents ==
    { [readable |-> TRUE, labels |-> <<Labels_Fp1, Labels_EKG1, Labels_X1>>,
       samples |-> 512, duration |-> 2, rate |-> 256],
      [readable |-> TRUE, labels |-> <<>>,
       samples |-> 0, duration |-> 2, rate |-> 256],
      [readable |-> FALSE, labels |-> <<>>,
       samples |-> 0, duration |-> 0, rate |-> 0] }

InitSidecar ==
    /\ LoggerIdle
    /\ ParseIdle
    /\ UnitIdle
    /\ BuildIdle
    /\ \E chosen \in { S \in SUBSET TreeEntries :
                          Cardinality(S) <= MaxTreeEntries } :
          LET fpaths == { e.path : e \in { x \in chosen : x.file } }
              dpaths == { e.path : e \in { x \in chosen : ~x.file } }
          IN  /\ fs_dirs = UNION { Ancestors(SubSeq(q, 1, Len(q) - 1)) :
                                      q \in fpaths }
                            \cup UNION { Ancestors(q) : q \in dpaths }
              /\ \E content \in [fpaths -> EdfContents] :
                    fs_files = [q \in fpaths |->
                        IF endswith(q[Len(q)], S_edf)
                        THEN [kind |-> "edf", edf |-> content[q]]
                        ELSE [kind |-> "other"]]
    /\ reader_available \in BOOLEAN
    /\ SidecarStart

\* main: one iteration of the loop "for path in pathes: handle_eeg_json"
HandleEegJson ==
    /\ gpc = "eeg"
    /\ idx <= Len(pathes)
    /\ LET r == handle_eeg_json(pathes[idx], reader_available,
                                fs_dirs, fs_files)
       IN  /\ fs_dirs' = r.dirs
           /\ fs_files' = r.files
           /\ tally' = IF r.ok
                       THEN [tally EXCEPT !.successful_eeg = @ + 1]
                       ELSE [tally EXCEPT !.failed_eeg = @ + 1]
           /\ attempts' = Append(attempts,
                 [kind |-> "eeg", index |-> idx, ok |-> r.ok,
                  validate |-> r.validate, save_called |-> r.save_called,
                  wrote |-> (r.dirs # fs_dirs \/ r.files # fs_files)])
    /\ IF idx = Len(pathes)
       THEN gpc' = next_kind("eeg") /\ idx' = 1
       ELSE gpc' = gpc /\ idx' = idx + 1
    /\ UNCHANGED <<reader_available, pathes, exit_code>>
    /\ UNCHANGED <<parse_vars, unit_vars, logger_vars, build_vars>>

\* main: one iteration of the loop "for path in pathes: handle_channels_tsv"
HandleChannelsTsv ==
    /\ gpc = "channels"
    /\ idx <= Len(pathes)
    /\ LET r == handle_channels_tsv(pathes[idx], reader_available,
                                    fs_dirs, fs_files)
       IN  /\ fs_dirs' = r.dirs
           /\ fs_files' = r.files
           /\ tally' = IF r.ok
                       THEN [tally EXCEPT !.successful_channels = @ + 1]
                       ELSE [tally EXCEPT !.failed_channels = @ + 1]
           /\ attempts' = Append(attempts,
                 [kind |-> "channels", index |-> idx, ok |-> r.ok,
                  validate |-> r.validate, save_called |-> r.save_called,
                  wrote |-> (r.dirs # fs_dirs \/ r.files # fs_files)])
    /\ IF idx = Len(pathes)
       THEN gpc' = next_kind("channels") /\ idx' = 1
       ELSE gpc' = gpc /\ idx' = idx + 1
    /\ UNCHANGED <<reader_available, pathes, exit_code>>
    /\ UNCHANGED <<parse_vars, unit_vars, logger_vars, build_vars>>

\* main: one iteration of the loop "for patient_id, sessions in
\* sessions_by_patient.items(): handle_sessions_tsv".  An exception that
\* leaves handle_sessions_tsv leaves main as well.
HandleSessionsTsv ==
    /\ gpc = "sessions"
    /\ idx <= Len(sessions_by_patient(pathes))
    /\ LET item == sessions_by_patient(pathes)[idx]
           r == handle_sessions_tsv(item.patient_id, item.sessions,
                                    fs_dirs, fs_files)
       IN  /\ fs_dirs' = r.dirs
           /\ fs_files' = r.files
           /\ tally' = IF r.raised # "none" THEN tally
                       ELSE IF r.ok
                       THEN [tally EXCEPT !.successful_sessions = @ + 1]
                       ELSE [tally EXCEPT !.failed_sessions = @ + 1]
           /\ attempts' = Append(attempts,
                 [kind |-> "sessions", index |-> idx, ok |-> r.ok,
                  validate |-> r.validate, save_called |-> r.save_called,
                  wrote |-> (r.dirs # fs_dirs \/ r.files # fs_files),
                  raised |-> r.raised, rows |-> r.rows])
           /\ IF r.raised # "none"
              THEN gpc' = "done" /\ idx' = idx /\ exit_code' = "raised"
              ELSE IF idx = Len(sessions_by_patient(pathes))
              THEN gpc' = next_kind("sessions") /\ idx' = 1
                   /\ exit_code' = exit_code
              ELSE gpc' = gpc /\ idx' = idx + 1 /\ exit_code' = exit_code
    /\ UNCHANGED <<reader_available, pathes>>
    /\ UNCHANGED <<parse_vars, unit_vars, logger_vars, build_vars>>

\* main: the summary and the return value
Return ==
    /\ gpc = "summary"
    /\ exit_code' = exit_status(tally)
    /\ gpc' = "done"
    /\ UNCHANGED <<reader_available, pathes, idx, tally, attempts>>
    /\ UNCHANGED <<parse_vars, unit_vars, logger_vars, build_vars, tree_vars>>

NextSidecar ==
    \/ Discover
    \/ HandleEegJson
    \/ HandleChannelsTsv
    \/ HandleSessionsTsv
    \/ Return

SpecSidecar == InitSidecar /\ [][NextSidecar]_vars

(***************************************************************************)
(* The same run of generate_bids_sidecars.main over output directories     *)
(* made of whole sessions, one recording each, among them sessions whose   *)
(* directory names leave an empty or a non-numeric age                     *)
(***************************************************************************)
MaxSessions == 2

SessionRecordings ==
    { Append(ScanDir(P_4ZHY, Ses15), S_rec_edf),
      Append(ScanDir(P_4ZHY, Ses3), S_rec_edf),
      Append(ScanDir(P_B7, Ses1m2), S_rec_edf),
      Append(ScanDir(P_B7, SesNoAge), S_rec_edf),
      Append(ScanDir(P_B7, SesX), S_rec_edf) }

\* a recording pyedflib reads, one it cannot read
RecordingContents ==
    { [readable |-> TRUE, labels |-> <<Labels_Fp1, Labels_EKG1>>,
       samples |-> 512, duration |-> 2, rate |-> 256],
      [readable |-> FALSE, labels |-> <<>>,
       samples |-> 0, duration |-> 0, rate |-> 0] }

InitMain ==
    /\ LoggerIdle
    /\ ParseIdle
    /\ UnitIdle
    /\ BuildIdle
    /\ \E chosen \in { S \in SUBSET SessionRecordings :
                          Cardinality(S) <= MaxSessions } :
          /\ fs_dirs = UNION { Ancestors(SubSeq(q, 1, Len(q) - 1)) :
                                  q \in chosen }
          /\ \E content \in [chosen -> RecordingContents] :
                fs_files = [q \in chosen |->
                               [kind |-> "edf", edf |-> content[q]]]
    /\ reader_available \in BOOLEAN
    /\ SidecarStart

SpecMain == InitMain /\ [][NextSidecar]_vars

(***************************************************************************)
(* Inputs of the parser specification: file names assembled from parts     *)
(* that are well-formed or malformed in one place each.                    *)
(***************************************************************************)
PrefixParts == {S_PRV, <<"P", "R", "X", "-">>, <<"X", "P", "R", "V", "-">>,
                <<"p", "r", "v", "-">>}

SiteParts == {<<"0", "0", "1">>, <<"1", "2">>, <<"0", "a">>, <<>>}

PatientParts == {<<"4", "Z", "H", "Y">>, <<"B", "7">>, <<"4", "z", "H">>, <<>>}

AgeParts == {<<"1", "5">>, <<"0", "6">>, <<"6">>, <<"0">>, <<"x", "5">>,
             <<"1", "x">>, <<>>}

TailParts == {<<>>, <<"A">>, <<"A", "B">>, <<"a">>, <<"_", "2">>, <<"-", "7">>,
              <<".", "v", "2">>}

AnnotationParts == {<<>>, S_annotations}

ExtensionParts == {S_edf, S_xml, <<".", "t", "x", "t">>, <<>>}

Filenames ==
    { pre \o site \o <<"-">> \o pat \o <<"-">> \o age \o tl \o ann \o ext :
        pre \in PrefixParts, site \in SiteParts, pat \in PatientParts,
        age \in AgeParts, tl \in TailParts, ann \in AnnotationParts,
        ext \in ExtensionParts }

InitParse ==
    /\ LoggerIdle
    /\ filename \in Filenames
    /\ parsed = NotCalled
    /\ UnitIdle
    /\ BuildIdle
    /\ fs_dirs = {}
    /\ fs_files = <<>>
    /\ reader_available = TRUE
    /\ SidecarStart

\* one call parse_filename(filename)
ParseFilename ==
    /\ parsed = NotCalled
    /\ parsed' = parse_filename(filename)
    /\ UNCHANGED <<filename, build_vars, tree_vars, sidecar_vars, unit_vars,
                 logger_vars>>

NextParse == ParseFilename

SpecParse == InitParse /\ [][NextParse]_vars

(***************************************************************************)
(* Unit runs of the sidecar classes: one call of EegJSON(fields).validate, *)
(* ChannelsTSV(rows).validate, SessionsTSV(rows).validate or               *)
(* ChannelsTSV.determine_channel_type on an argument drawn from the sets   *)
(* below.                                                                  *)
(***************************************************************************)
MaxRows == 2
MaxNameLen == 3

\* Python's None
Null == [type |-> "null", v |-> 0]

\* what a caller may hand to EegJSON for each field: nothing ({}), a valid
\* value, a value of the wrong type or outside the schema's minimum or enum
EegFieldChoices ==
    [SamplingFrequency : {{}, {Number(256)}, {Integer(0)}, {Number(-1)},
                          {Null}},
     PowerLineFrequency : {{}, {Integer(50)}, {Integer(55)}},
     TaskName : {{}, {Integer(7)}},
     RecordingType : {{}, {String("epoched")}, {String("resting")}},
     EEGChannelCount : {{}, {Integer(3)}, {Integer(-1)}},
     Impedance : {{}, {Number(5)}},
     Notes : {{}, {String("n/a")}}]

\* the fields dictionary of one choice
fields_of(choice) ==
    [k \in { x \in DOMAIN choice : choice[x] # {} } |->
        CHOOSE v \in choice[k] : TRUE]

\* a row with the given columns
row_of(columns) == [c \in columns |-> "v"]

ChannelColumnSets ==
    { ChannelsTSV_REQUIRED_FIELDS,
      ChannelsTSV_REQUIRED_FIELDS \cup ChannelsTSV_RECOMMENDED_FIELDS,
      ChannelsTSV_REQUIRED_FIELDS \cup {"low_cutoff"},
      ChannelsTSV_REQUIRED_FIELDS \cup {"status"},
      ChannelsTSV_REQUIRED_FIELDS \cup {"impedance"},
      ChannelsTSV_REQUIRED_FIELDS \ {"units"},
      (ChannelsTSV_REQUIRED_FIELDS \ {"name", "type"}) \cup {"notch"},
      {} }

SessionColumnSets == SUBSET (SessionsTSV_REQUIRED_FIELDS \cup {"notes"})

\* the lists of at most MaxRows rows over the column sets
Tables(column_sets) ==
    UNION { [1..n -> { row_of(c) : c \in column_sets }] : n \in 0..MaxRows }

NameAlphabet == {"E", "k", "G", "O", "t", "7"}

\* channel names: the extracted labels, names in other case, names with
\* two keywords, and every short string over NameAlphabet
ChannelNames ==
    { placeholder_channels[i] : i \in 1..Len(placeholder_channels) }
    \cup { <<"T", "7">>, <<"t", "8">>, <<"P", "7">>, <<"P", "8">>,
           <<"f", "p", "1">>, <<"F", "P", "2">>, <<"A", "1">>, <<"a", "2">>,
           <<"E", "C", "G">>, <<"e", "c", "g", "2">>, <<"x", "E", "o", "G">>,
           <<"E", "M", "G", "1">>, <<"m", "u", "s", "c">>,
           <<"E", "K", "G", "E", "O", "G">>, <<"E", "O", "G", "E", "M", "G">>,
           <<"E", "M", "G", "E", "C", "G">>, <<"C", "z", "-", "A", "1">>,
           <<"X", "1">>, <<"E", "E", "G">>, <<"M", "U", "S">> }
    \cup UNION { [1..n -> NameAlphabet] : n \in 0..MaxNameLen }

\* the age strings find_bids_path can hand on: below, at, inside and above
\* the bounds of the baseline window, empty and non-numeric
AgeStrings ==
    { <<"1">>, <<"1", ".", "4">>, <<"1", ".", "5">>, <<"3">>, <<"6">>,
      <<"6", ".", "1">>, <<"1", "5">>, <<>>, <<"x">> }

SessionLists ==
    UNION { [1..n -> { [age |-> a] : a \in AgeStrings }] : n \in 1..MaxRows }

MaxCalls == 2

\* payload keys named like path options, beside real fields
SaveFieldChoices ==
    [SamplingFrequency : {{Number(256)}},
     bids_path : {{}, {String("sub-01")}},
     output_dir : {{}, {String("out")}},
     filename : {{}, {String("x.json")}},
     json_indent : {{}, {Integer(4)}},
     input_dir : {{}, {String("in")}},
     Notes : {{}, {String("n/a")}}]

D_sub01 == <<"s", "u", "b", "-", "0", "1">>
D_made == <<"m", "a", "d", "e">>
D_given == <<"g", "i", "v", "e", "n">>
F_custom == <<"c", "u", "s", "t", "o", "m", ".", "j", "s", "o", "n">>

\* the keyword arguments of the constructor
KwargChoices ==
    [bids_path : {{}, {<<D_sub01, S_eeg>>}},
     output_dir : {{}, {<<D_made>>}},
     filename : {{}, {F_custom}}]

\* what is at the target before save: nothing, the directory, the file
TargetStates == {"nothing", "directory", "file"}

SaveCalls ==
    { [op |-> "EegJSON.save", fields |-> fields_of(f),
       kwargs |-> fields_of(k), output_dir |-> o, flat |-> fl,
       target |-> tg] :
          f \in SaveFieldChoices, k \in KwargChoices,
          o \in {<<>>, <<D_given>>}, fl \in BOOLEAN, tg \in TargetStates }
    \cup { [op |-> "ChannelsTSV.save", rows |-> r] :
              r \in Tables(ChannelColumnSets) }

RevalidateCalls ==
    { [op |-> "validate again", kind |-> "EegJSON", arg |-> fields_of(c)] :
          c \in EegFieldChoices }
    \cup { [op |-> "validate again", kind |-> "ChannelsTSV", arg |-> r] :
              r \in Tables(ChannelColumnSets) }
    \cup { [op |-> "validate again", kind |-> "SessionsTSV", arg |-> r] :
              r \in Tables(SessionColumnSets) }

UnitCalls ==
    SaveCalls \cup RevalidateCalls \cup
    { [op |-> "EegJSON.validate", fields |-> fields_of(c)] :
          c \in EegFieldChoices }
    \cup { [op |-> "ChannelsTSV.validate", rows |-> r] :
              r \in Tables(ChannelColumnSets) }
    \cup { [op |-> "SessionsTSV.validate", rows |-> r] :
              r \in Tables(SessionColumnSets) }
    \cup { [op |-> "determine_channel_type", name |-> n] :
              n \in ChannelNames }
    \cup { [op |-> "handle_sessions_tsv", sessions |-> l] :
              l \in SessionLists }

InitUnit ==
    /\ LoggerIdle
    /\ ParseIdle
    /\ BuildIdle
    /\ fs_dirs = {}
    /\ fs_files = <<>>
    /\ reader_available = TRUE
    /\ SidecarStart
    /\ unit_call \in UnitCalls
    /\ unit_result = NotCalled

\* EegJSON(fields=..., bids_path=..., filename=...).validate()
ValidateEegJson ==
    /\ unit_call.op = "EegJSON.validate"
    /\ unit_result = NotCalled
    /\ LET sc == EegJSON_init(unit_call.fields, <<>>, <<>>)
       IN  unit_result' =
               [ok |-> EegJSON_validate(sc) = "ok",
                error |-> EegJSON_validate(sc),
                named |-> EegJSON_validate_named(sc),
                data |-> sc.data]
    /\ UNCHANGED <<unit_call, parse_vars, build_vars, tree_vars, sidecar_vars,
                 logger_vars>>

\* ChannelsTSV(fields=rows, ...).validate()
ValidateChannelsTsv ==
    /\ unit_call.op = "ChannelsTSV.validate"
    /\ unit_result = NotCalled
    /\ LET sc == ChannelsTSV_init(unit_call.rows, <<>>, <<>>)
       IN  unit_result' =
               [ok |-> ChannelsTSV_validate(sc) = "ok",
                error |-> ChannelsTSV_validate(sc),
                named |-> IF ChannelsTSV_validate(sc) = "ok" \/ sc.data = <<>>
                          THEN [row |-> -1, columns |-> {}]
                          ELSE ChannelsTSV_validate_error(sc)]
    /\ UNCHANGED <<unit_call, parse_vars, build_vars, tree_vars, sidecar_vars,
                 logger_vars>>

\* SessionsTSV(fields=rows, ...).validate()
ValidateSessionsTsv ==
    /\ unit_call.op = "SessionsTSV.validate"
    /\ unit_result = NotCalled
    /\ LET sc == SessionsTSV_init(unit_call.rows, <<>>, <<>>)
       IN  unit_result' =
               [ok |-> SessionsTSV_validate(sc) = "ok",
                error |-> SessionsTSV_validate(sc),
                named |-> IF SessionsTSV_validate(sc) = "ok" \/ sc.data = <<>>
                          THEN [row |-> -1, columns |-> {}]
                          ELSE SessionsTSV_validate_error(sc)]
    /\ UNCHANGED <<unit_call, parse_vars, build_vars, tree_vars, sidecar_vars,
                 logger_vars>>

\* ChannelsTSV.determine_channel_type(channel_name)
DetermineChannelType ==
    /\ unit_call.op = "determine_channel_type"
    /\ unit_result = NotCalled
    /\ unit_result' = [ok |-> TRUE, error |-> "none",
                       value |-> determine_channel_type(unit_call.name)]
    /\ UNCHANGED <<unit_call, parse_vars, build_vars, tree_vars, sidecar_vars,
                 logger_vars>>

\* handle_sessions_tsv(patient_id, sessions_data, output_base_dir) on an
\* output directory that holds the patient's subject directory
CallHandleSessionsTsv ==
    /\ unit_call.op = "handle_sessions_tsv"
    /\ unit_result = NotCalled
    /\ LET r == handle_sessions_tsv(P_4ZHY, unit_call.sessions,
                                    Ancestors(subject_bids_path(P_4ZHY)),
                                    <<>>)
       IN  unit_result' = [ok |-> r.ok, error |-> r.raised, rows |-> r.rows,
                           files |-> r.files]
    /\ UNCHANGED <<unit_call, parse_vars, build_vars, tree_vars, sidecar_vars,
                 logger_vars>>

\* the tree before the save of the given call
tree_before(sc, call) ==
    LET there == save(sc, call.output_dir, call.flat, "json",
                      [dirs |-> {}, files |-> <<>>, error |-> "none"])
    IN  IF call.target = "nothing"
        THEN [dirs |-> {}, files |-> <<>>, error |-> "none"]
        ELSE IF call.target = "directory"
        THEN [dirs |-> there.dirs, files |-> <<>>, error |-> "none"]
        ELSE [dirs |-> there.dirs, error |-> "none",
              files |-> [q \in {there.path} |-> [kind |-> "empty"]]]

\* EegJSON(fields, **kwargs).save(output_dir=..., flat=...)
SaveEegJson ==
    /\ unit_call.op = "EegJSON.save"
    /\ unit_result = NotCalled
    /\ LET sc == EegJSON_new(unit_call.fields, unit_call.kwargs)
           t == tree_before(sc, unit_call)
           r == save(sc, unit_call.output_dir, unit_call.flat, "json", t)
       IN  unit_result' = [ok |-> r.error = "none", error |-> r.error,
                           path |-> r.path, data |-> sc.data,
                           dirs_before |-> t.dirs, files_before |-> t.files,
                           dirs |-> r.dirs, files |-> r.files]
    /\ UNCHANGED <<unit_call, parse_vars, build_vars, tree_vars, sidecar_vars,
                 logger_vars>>

\* ChannelsTSV(fields=rows, bids_path=..., filename=...).save(output_dir)
SaveChannelsTsv ==
    /\ unit_call.op = "ChannelsTSV.save"
    /\ unit_result = NotCalled
    /\ LET sc == ChannelsTSV_init(unit_call.rows, <<D_sub01, S_eeg>>,
                                  F_custom)
           r == save(sc, <<D_given>>, FALSE, "tsv",
                     [dirs |-> {}, files |-> <<>>, error |-> "none"])
       IN  unit_result' = [ok |-> r.error = "none", error |-> r.error,
                           path |-> r.path, files |-> r.files]
    /\ UNCHANGED <<unit_call, parse_vars, build_vars, tree_vars, sidecar_vars,
                 logger_vars>>

\* the sidecar a "validate again" call constructs
constructed(call) ==
    IF call.kind = "EegJSON" THEN EegJSON_init(call.arg, <<D_sub01>>, F_custom)
    ELSE IF call.kind = "ChannelsTSV"
    THEN ChannelsTSV_init(call.arg, <<D_sub01>>, F_custom)
    ELSE SessionsTSV_init(call.arg, <<D_sub01>>, F_custom)

\* sc.validate() of the sidecar's own class
validate_of(kind, sc) ==
    IF kind = "EegJSON" THEN EegJSON_validate(sc)
    ELSE IF kind = "ChannelsTSV" THEN ChannelsTSV_validate(sc)
    ELSE SessionsTSV_validate(sc)

\* one more validate() on a sidecar nobody modified in between
Revalidate ==
    /\ unit_call.op = "validate again"
    /\ LET sc == IF unit_result = NotCalled THEN constructed(unit_call)
                 ELSE unit_result.sc
           outcomes == IF unit_result = NotCalled THEN <<>>
                       ELSE unit_result.outcomes
       IN  /\ Len(outcomes) < MaxCalls
           /\ unit_result' =
                 [ok |-> validate_of(unit_call.kind, sc) = "ok",
                  error |-> validate_of(unit_call.kind, sc),
                  outcomes |-> Append(outcomes,
                                      validate_of(unit_call.kind, sc)),
                  sc |-> after_validate(sc)]
    /\ UNCHANGED <<unit_call, parse_vars, build_vars, tree_vars, sidecar_vars,
                 logger_vars>>

NextUnit ==
    \/ SaveEegJson
    \/ SaveChannelsTsv
    \/ Revalidate
    \/ CallHandleSessionsTsv
    \/ ValidateEegJson
    \/ ValidateChannelsTsv
    \/ ValidateSessionsTsv
    \/ DetermineChannelType

SpecUnit == InitUnit /\ [][NextUnit]_vars

(***************************************************************************)
(* Threads calling get_logger, each through one class                      *)
(***************************************************************************)
MaxThreads == 2

Threads == 1..MaxThreads

InitLogger ==
    /\ ParseIdle
    /\ UnitIdle
    /\ BuildIdle
    /\ fs_dirs = {}
    /\ fs_files = <<>>
    /\ reader_available = TRUE
    /\ SidecarStart
    /\ class_logger = NoClassLogger
    /\ logger_lock = 0
    /\ callers \in [Threads -> [pc : {"call"}, cls : Classes, got : {"None"}]]
    /\ logging = NoLogging

\* with _logger_lock: the thread enters when the lock is free
GetLoggerAcquire ==
    \E t \in DOMAIN callers :
        /\ callers[t].pc = "call"
        /\ logger_lock = 0
        /\ logger_lock' = t
        /\ callers' = [callers EXCEPT ![t].pc = "test"]
        /\ UNCHANGED <<class_logger, logging>>
        /\ UNCHANGED <<parse_vars, build_vars, tree_vars, sidecar_vars, unit_vars>>

\* if cls._logger is None
GetLoggerTest ==
    \E t \in DOMAIN callers :
        /\ callers[t].pc = "test"
        /\ callers' = [callers EXCEPT ![t].pc =
                          IF get_class_logger(class_logger, callers[t].cls) = "None"
                          THEN "setup" ELSE "return"]
        /\ UNCHANGED <<class_logger, logger_lock, logging>>
        /\ UNCHANGED <<parse_vars, build_vars, tree_vars, sidecar_vars, unit_vars>>

\* cls._logger = setup_logger("sidecar_data_generator", log_dir=cls._log_dir)
GetLoggerSetup ==
    \E t \in DOMAIN callers :
        /\ callers[t].pc = "setup"
        /\ logging' = [setup_runs |-> setup_logger(logging).setup_runs,
                       handlers |-> setup_logger(logging).handlers]
        /\ class_logger' = [class_logger EXCEPT ![callers[t].cls] =
                               setup_logger(logging).logger]
        /\ callers' = [callers EXCEPT ![t].pc = "return"]
        /\ UNCHANGED logger_lock
        /\ UNCHANGED <<parse_vars, build_vars, tree_vars, sidecar_vars, unit_vars>>

\* return cls._logger, leaving the with block
GetLoggerReturn ==
    \E t \in DOMAIN callers :
        /\ callers[t].pc = "return"
        /\ callers' = [callers EXCEPT
                          ![t].pc = "done",
                          ![t].got = get_class_logger(class_logger, callers[t].cls)]
        /\ logger_lock' = 0
        /\ UNCHANGED <<class_logger, logging>>
        /\ UNCHANGED <<parse_vars, build_vars, tree_vars, sidecar_vars, unit_vars>>

NextLogger ==
    \/ GetLoggerAcquire
    \/ GetLoggerTest
    \/ GetLoggerSetup
    \/ GetLoggerReturn

SpecLogger == InitLogger /\ [][NextLogger]_vars

(***************************************************************************)
(* The documented file-name format, stated on the fields between hyphens   *)
(***************************************************************************)
\* s.split(c)
RECURSIVE split(_, _)
split(s, c) ==
    LET n == Span(s, 1, {x \in {s[k] : k \in 1..Len(s)} : x # c})
    IN  IF n = Len(s) THEN <<s>>
        ELSE <<SubSeq(s, 1, n)>> \o split(From(s, n + 2), c)

AllIn(s, cls) == \A k \in 1..Len(s) : s[k] \in cls

\* the part of a file name in front of its extension, -annotations removed
Stem(fname) ==
    LET root == splitext(fname)[1]
    IN  IF endswith(root, S_annotations)
        THEN SubSeq(root, 1, Len(root) - Len(S_annotations))
        ELSE root

\* digits of the age field of a stem, the optional variant letter removed
AgeDigits(field) ==
    IF field # <<>> /\ field[Len(field)] \in Upper
    THEN SubSeq(field, 1, Len(field) - 1)
    ELSE field

\* PRV-{numeric site}-{uppercase alnum patient id}-{numeric age}[letter]
FullPattern(fname) ==
    LET f == split(Stem(fname), "-")
    IN  /\ Len(f) = 4
        /\ f[1] = <<"P", "R", "V">>
        /\ f[2] # <<>> /\ AllIn(f[2], Digit)
        /\ f[3] # <<>> /\ AllIn(f[3], Upper \cup Digit)
        /\ AgeDigits(f[4]) # <<>> /\ AllIn(AgeDigits(f[4]), Digit)

\* the age field is the decimal numeral of its value (no leading zero)
CanonicalAge(fname) ==
    LET ds == AgeDigits(split(Stem(fname), "-")[4])
    IN  Len(ds) = 1 \/ ds[1] # "0"

\* 'PRV-{site}-{patientId}-{age}{suffix}' + extension
Rebuild(r, ext) ==
    S_PRV \o r.site \o <<"-">> \o r.patient_id \o <<"-">> \o str(r.age)
          \o r.suffix \o ext

\* C2: every file name that does not match the full documented pattern is
\* rejected by parse_filename with the ValueError naming the file.
C2_MalformedRejected ==
    (parsed # NotCalled /\ ~FullPattern(filename))
        => (~parsed.ok /\ parsed.error = "ValueError"
            /\ parsed.message = filename)

\* C3 as stated: for every valid file name the rebuilt name equals the
\* original name without its -annotations infix.
C3_RoundTripAllValid ==
    (parsed # NotCalled /\ FullPattern(filename))
        => (parsed.ok
            /\ Rebuild(parsed, splitext(filename)[2])
                 = Stem(filename) \o splitext(filename)[2])

\* C3 amended: for every valid file name whose age is written without
\* leading zeros, the rebuilt name equals the original name without its
\* -annotations infix.
C3_RoundTripCanonicalAge ==
    (parsed # NotCalled /\ FullPattern(filename) /\ CanonicalAge(filename))
        => (parsed.ok
            /\ Rebuild(parsed, splitext(filename)[2])
                 = Stem(filename) \o splitext(filename)[2])

C3_Witness ==
    /\ parsed # NotCalled
    /\ filename = S_PRV \o <<"0", "0", "1", "-", "4", "Z", "H", "Y", "-",
                             "1", "5", "A">> \o S_annotations \o S_xml
    /\ parsed.ok
    /\ parsed.suffix = <<"A">>
    /\ parsed.age = 15

(***************************************************************************)
(* Properties of the builder run                                           *)
(***************************************************************************)
\* the file_info entries of files_by_patient, each with its patient id
Accepted ==
    UNION { { [patient_id |-> files_by_patient[i].patient_id,
               info |-> files_by_patient[i].files[k]] :
                k \in DOMAIN files_by_patient[i].files } :
            i \in DOMAIN files_by_patient }

\* the (patient, age) groups the builder lays out that hold a signal file
SignalGroups ==
    { <<a.patient_id, a.info.age>> :
        a \in { x \in Accepted : x.info.extension = S_edf } }

\* C1: the scanner inverts the builder: after the builder has copied every
\* file into an empty output directory, find_bids_path returns exactly one
\* record for each (patient, age) group holding an .edf file, and no record
\* for any other (patient, age).
C1_ScannerInvertsBuilder ==
    (gpc # "start" /\ runs >= 1 /\ copy_error = "none")
        => /\ \A g \in SignalGroups :
                Cardinality({ i \in DOMAIN pathes :
                                /\ pathes[i].patient_id = g[1]
                                /\ pathes[i].age = str(g[2]) }) = 1
           /\ \A i \in DOMAIN pathes :
                \E g \in SignalGroups :
                    pathes[i].patient_id = g[1] /\ pathes[i].age = str(g[2])

\* C4: a missing source file fails alone: after create_bids_structure every
\* listed file that is still in the input directory has been copied to its
\* destination.
C4_MissingFileConfined ==
    (pc = "built")
        => \A a \in Accepted :
              a.info.filename \in input_dir
                  => dst_file(a.patient_id, a.info) \in DOMAIN fs_files

\* C5: one copy per accepted input file: after the builder ran on an
\* unchanged input directory, every accepted file has a destination of its
\* own holding its content, so as many files are written as were accepted.
C5_OneCopyPerInputFile ==
    (pc = "built" /\ removed = 0)
        => /\ \A a \in Accepted :
                /\ dst_file(a.patient_id, a.info) \in DOMAIN fs_files
                /\ fs_files[dst_file(a.patient_id, a.info)]
                      = source_content(a.info.filename)
           /\ Cardinality(DOMAIN fs_files) = Cardinality(Accepted)

\* is the file one get_files_by_patient has to keep
Wanted(fname) ==
    /\ endswith(fname, S_edf) \/ endswith(fname, S_xml)
    /\ parse_filename(fname).ok
    /\ parse_filename(fname).patient_id \in patient_identifiers

\* C6: allow-list filtering: the keys of files_by_patient are allow-listed
\* patient ids, every parseable .edf/.xml file of an allow-listed patient
\* is listed exactly once and under its patient's key, nothing else is
\* listed, and only unparseable names are warned about.
C6_AllowListFiltering ==
    (pc = "listed" /\ removed = 0)
        => /\ \A i \in DOMAIN files_by_patient :
                /\ files_by_patient[i].patient_id \in patient_identifiers
                /\ files_by_patient[i].files # <<>>
                /\ \A j \in DOMAIN files_by_patient :
                      files_by_patient[j].patient_id
                          = files_by_patient[i].patient_id => j = i
           /\ \A fname \in input_dir :
                Wanted(fname) =>
                    Cardinality({ ik \in { <<i, k>> :
                                      i \in DOMAIN files_by_patient,
                                      k \in 1..Cardinality(input_dir) } :
                        /\ ik[2] \in DOMAIN files_by_patient[ik[1]].files
                        /\ files_by_patient[ik[1]].files[ik[2]].filename
                              = fname
                        /\ files_by_patient[ik[1]].patient_id
                              = parse_filename(fname).patient_id }) = 1
           /\ \A a \in Accepted :
                a.info.filename \in input_dir /\ Wanted(a.info.filename)
           /\ Cardinality(Accepted)
                 = Cardinality({ fname \in input_dir : Wanted(fname) })
           /\ \A w \in warnings : w \in input_dir /\ ~parse_filename(w).ok

C6_Witness ==
    /\ pc = "listed"
    /\ removed = 0
    /\ input_dir = {N_15_edf, N_B7_edf, N_Q9_xml}
    /\ patient_identifiers = {P_4ZHY}
    /\ Cardinality(Accepted) = 1

\* the canonical destination, spelled out:
\* PRV-{patient}/primary/sub-PRV-{patient}/ses-visit-m{age}/eeg/
\*     sub-PRV-{patient}-{age}.{ext}
CanonicalDir(patient, age) ==
    << <<"P", "R", "V", "-">> \o patient,
       <<"p", "r", "i", "m", "a", "r", "y">>,
       <<"s", "u", "b", "-", "P", "R", "V", "-">> \o patient,
       <<"s", "e", "s", "-", "v", "i", "s", "i", "t", "-", "m">> \o str(age),
       <<"e", "e", "g">> >>

CanonicalFile(patient, age, ext) ==
    <<"s", "u", "b", "-", "P", "R", "V", "-">> \o patient \o <<"-">>
        \o str(age) \o ext

\* C7: every copy lies at the canonical path of its source file's patient,
\* age and extension; after a run without failure every accepted file has
\* its copy there; and no directory is created outside the canonical
\* directories of the groups.
C7_CanonicalDestination ==
    (pc = "built")
        => /\ \A p \in DOMAIN fs_files :
                LET src == fs_files[p].src
                    r == parse_filename(src)
                IN  /\ r.ok
                    /\ splitext(src)[2] \in {S_edf, S_xml}
                    /\ p = Append(CanonicalDir(r.patient_id, r.age),
                                  CanonicalFile(r.patient_id, r.age,
                                                splitext(src)[2]))
           /\ copy_error = "none" =>
                \A a \in Accepted :
                    Append(CanonicalDir(a.patient_id, a.info.age),
                           CanonicalFile(a.patient_id, a.info.age,
                                         splitext(a.info.filename)[2]))
                        \in DOMAIN fs_files
           /\ \A d \in fs_dirs :
                \E a \in Accepted :
                    d \in Ancestors(CanonicalDir(a.patient_id, a.info.age))

C7_Witness ==
    /\ pc = "built"
    /\ copy_error = "none"
    /\ Append(CanonicalDir(P_4ZHY, 15), CanonicalFile(P_4ZHY, 15, S_xml))
          \in DOMAIN fs_files
    /\ Append(CanonicalDir(P_4ZHY, 15), CanonicalFile(P_4ZHY, 15, S_edf))
          \in DOMAIN fs_files
    /\ Append(CanonicalDir(P_B7, 6), CanonicalFile(P_B7, 6, S_edf))
          \in DOMAIN fs_files

\* C8: builder idempotence: a second run of create_bids_structure with the
\* same files_by_patient does not fail because a directory or file already
\* exists, and leaves the output tree as the first run left it.
C8_BuilderIdempotent ==
    (runs >= 2)
        => /\ copy_error # "FileExistsError"
           /\ [dirs |-> fs_dirs, files |-> fs_files] = tree_after_first

C8_Witness ==
    /\ runs = 2
    /\ removed = 0
    /\ copy_error = "none"
    /\ Cardinality(DOMAIN fs_files) >= 2
    /\ [dirs |-> fs_dirs, files |-> fs_files] = tree_after_first

(***************************************************************************)
(* Properties of the sidecar run                                           *)
(***************************************************************************)
Entries == fs_dirs \cup DOMAIN fs_files

\* PRV-*/primary/sub-{patient}/ses-visit*m
IsSessionDir(sd) ==
    /\ Len(sd) = 4
    /\ SubSeq(sd[1], 1, 4) = <<"P", "R", "V", "-">>
    /\ sd[2] = <<"p", "r", "i", "m", "a", "r", "y">>
    /\ sd[3] = <<"s", "u", "b", "-">> \o patient_of(sd[1])
    /\ Len(sd[4]) >= 10
    /\ SubSeq(sd[4], 1, 9) = <<"s", "e", "s", "-", "v", "i", "s", "i", "t">>
    /\ sd[4][Len(sd[4])] = "m"

\* the .edf files directly inside the eeg directory of a session
SignalFiles(sd) ==
    { e \in Entries :
        /\ Len(e) = 6
        /\ SubSeq(e, 1, 4) = sd
        /\ e[5] = <<"e", "e", "g">>
        /\ Len(e[6]) >= 4
        /\ SubSeq(e[6], Len(e[6]) - 3, Len(e[6])) = <<".", "e", "d", "f">> }

\* C9: find_bids_path returns a record for a session directory exactly
\* when the directory has an eeg subdirectory holding at least one .edf
\* file; it returns one record per such session, whose edf_file is one of
\* the .edf files of that eeg directory; and it returns a list whatever
\* the sessions lack.
C9_RecordIffSignal ==
    /\ gpc = "start" => find_bids_path(fs_dirs, fs_files) # {}
    /\ gpc # "start" =>
        /\ \A sd \in { e \in Entries : IsSessionDir(e) } :
              LET recs == { i \in DOMAIN pathes : pathes[i].session_dir = sd }
              IN  IF SignalFiles(sd) # {}
                  THEN /\ Cardinality(recs) = 1
                       /\ \A i \in recs : pathes[i].edf_file \in SignalFiles(sd)
                  ELSE recs = {}
        /\ \A i \in DOMAIN pathes :
              /\ pathes[i].session_dir \in Entries
              /\ IsSessionDir(pathes[i].session_dir)

C9_Witness ==
    /\ gpc # "start"
    /\ Len(pathes) = 1
    /\ pathes[1].session_dir = SubSeq(ScanDir(P_4ZHY, Ses15), 1, 4)
    /\ pathes[1].edf_file = Append(ScanDir(P_4ZHY, Ses15), S_rec2_edf)
    /\ Cardinality(SignalFiles(pathes[1].session_dir)) = 2
    /\ SubSeq(ScanDir(P_4ZHY, Ses18), 1, 4) \in Entries

\* C10: for a session of patient P at age A whose sidecars were saved, the
\* recording metadata is in sub-PRV-{P}-{A}_task-rest_eeg.json and the
\* channel table in sub-PRV-{P}-{A}_task-rest_channels.tsv, the table
\* holding one row per channel returned by channel extraction.
C10_SidecarNames ==
    \A k \in DOMAIN attempts :
        (attempts[k].ok /\ attempts[k].kind \in {"eeg", "channels"}) =>
            LET r == pathes[attempts[k].index]
                stem == <<"s", "u", "b", "-", "P", "R", "V", "-">>
                            \o r.patient_id \o <<"-">> \o r.age
                            \o <<"_", "t", "a", "s", "k", "-", "r", "e", "s",
                                 "t", "_">>
            IN  IF attempts[k].kind = "eeg"
                THEN \E p \in DOMAIN fs_files :
                        /\ p[Len(p)] = stem \o <<"e", "e", "g", ".", "j", "s",
                                                 "o", "n">>
                        /\ fs_files[p].kind = "json"
                ELSE \E p \in DOMAIN fs_files :
                        /\ p[Len(p)] = stem \o <<"c", "h", "a", "n", "n", "e",
                                                 "l", "s", ".", "t", "s", "v">>
                        /\ fs_files[p].kind = "tsv"
                        /\ Len(fs_files[p].rows)
                             = Len(extract_edf_channels(reader_available,
                                      fs_files[r.edf_file].edf))

(***************************************************************************)
(* Validation of the sidecar classes                                       *)
(***************************************************************************)
EegCalled == unit_call.op = "EegJSON.validate" /\ unit_result # NotCalled

TableCalled ==
    /\ unit_call.op \in {"ChannelsTSV.validate", "SessionsTSV.validate"}
    /\ unit_result # NotCalled

RequiredColumns ==
    IF unit_call.op = "ChannelsTSV.validate" THEN ChannelsTSV_REQUIRED_FIELDS
    ELSE SessionsTSV_REQUIRED_FIELDS

\* the columns of row i, rows counted from 0
Columns(i) == DOMAIN unit_call.rows[i + 1]

RowIndices == 0..(Len(unit_call.rows) - 1)

\* C11: when one of the seven REQUIRED fields is absent from the payload
\* after the defaults were merged in, validate fails and the error it raises
\* names every missing REQUIRED field.
C11_MissingRequiredEnumerated ==
    EegCalled =>
        LET missing == EegJSON_REQUIRED_FIELDS \ DOMAIN unit_result.data
        IN  missing # {} =>
                /\ ~unit_result.ok
                /\ missing \subseteq unit_result.named

\* the values of the drawn fields that the schema accepts
ValidEegChoice(fields) ==
    /\ "SamplingFrequency" \in DOMAIN fields
    /\ fields.SamplingFrequency \in {Number(256), Integer(0)}
    /\ "PowerLineFrequency" \in DOMAIN fields
            => fields.PowerLineFrequency = Integer(50)
    /\ "TaskName" \notin DOMAIN fields
    /\ "RecordingType" \in DOMAIN fields
            => fields.RecordingType = String("epoched")
    /\ "EEGChannelCount" \in DOMAIN fields
            => fields.EEGChannelCount = Integer(3)

\* C12: with every REQUIRED field present and every present field valid,
\* validate returns true whichever RECOMMENDED or OPTIONAL fields are
\* missing and whichever extra fields or columns are present, for the
\* recording metadata and for both tables.
C12_OptionalNeverFails ==
    /\ (EegCalled /\ ValidEegChoice(unit_call.fields)) => unit_result.ok
    /\ (TableCalled /\ unit_call.rows # <<>>
           /\ \A i \in RowIndices : /\ Columns(i) = Columns(0)
                                     /\ RequiredColumns \subseteq Columns(i))
          => unit_result.ok

\* validate has passed a payload that has an extra field and lacks
\* RECOMMENDED fields
C12_Witness ==
    /\ EegCalled
    /\ unit_result.ok
    /\ "Notes" \in DOMAIN unit_result.data
    /\ {"InstitutionName", "EEGChannelCount"} \cap DOMAIN unit_result.data = {}
    /\ "Impedance" \notin DOMAIN unit_result.data

\* table validation passes exactly the non-empty lists whose rows all have
\* the same columns, the REQUIRED ones among them
TablePassesIffUniform ==
    unit_result.ok <=>
        /\ unit_call.rows # <<>>
        /\ \A i \in RowIndices : /\ Columns(i) = Columns(0)
                                  /\ RequiredColumns \subseteq Columns(i)

\* C13 as stated: table validation passes only for uniform rows with the
\* REQUIRED columns, and for every row i that differs from row 0 or lacks a
\* REQUIRED column the error names row index i and the missing columns.
C13_ErrorNamesEveryBadRow ==
    TableCalled =>
        /\ TablePassesIffUniform
        /\ \A i \in RowIndices :
              (Columns(i) # Columns(0) \/ RequiredColumns \ Columns(i) # {})
                  => /\ unit_result.named.row = i
                     /\ RequiredColumns \ Columns(i)
                            \subseteq unit_result.named.columns

\* C13 (amended): table validation passes only for uniform rows with the
\* REQUIRED columns; a non-empty list that fails raises one error: it names
\* the first row whose columns differ from row 0's, with both column sets,
\* or, when no row differs, row 0 and the REQUIRED columns it lacks.  For
\* the two sessions rows of which the second lacks age_in_months: row index
\* 1 and age_in_months.
C13_ErrorNamesFirstBadRow ==
    TableCalled =>
        /\ TablePassesIffUniform
        /\ (~unit_result.ok /\ unit_call.rows # <<>>) =>
              LET differing == { i \in RowIndices : Columns(i) # Columns(0) }
              IN  IF differing # {}
                  THEN /\ unit_result.named.row \in differing
                       /\ \A j \in differing : unit_result.named.row <= j
                       /\ unit_result.named.columns
                             = Columns(unit_result.named.row) \cup Columns(0)
                  ELSE /\ unit_result.named.row = 0
                       /\ unit_result.named.columns
                             = RequiredColumns \ Columns(0)
        /\ (/\ unit_call.op = "SessionsTSV.validate"
            /\ Len(unit_call.rows) = 2
            /\ Columns(0) = SessionsTSV_REQUIRED_FIELDS
            /\ Columns(1) = SessionsTSV_REQUIRED_FIELDS \ {"age_in_months"})
              => /\ ~unit_result.ok
                 /\ unit_result.named.row = 1
                 /\ "age_in_months" \in unit_result.named.columns

\* the two-row sessions payload whose second row lacks age_in_months has
\* been validated
C13_Witness ==
    /\ TableCalled
    /\ unit_call.op = "SessionsTSV.validate"
    /\ Len(unit_call.rows) = 2
    /\ Columns(0) = SessionsTSV_REQUIRED_FIELDS
    /\ Columns(1) = SessionsTSV_REQUIRED_FIELDS \ {"age_in_months"}
    /\ unit_result.error = "ValueError"

\* C14: validate fails for every payload whose SamplingFrequency is
\* negative and for every payload whose PowerLineFrequency is neither 50
\* nor 60, whatever the other fields are.
C14_FrequencyChecks ==
    EegCalled =>
        LET data == unit_result.data
        IN  /\ ("SamplingFrequency" \in DOMAIN data
                  /\ data.SamplingFrequency.type \in {"integer", "number"}
                  /\ data.SamplingFrequency.v < 0) => ~unit_result.ok
            /\ ("PowerLineFrequency" \in DOMAIN data
                  /\ data.PowerLineFrequency.v \notin {50, 60})
                     => ~unit_result.ok

\* a payload that is valid but for its negative SamplingFrequency was
\* rejected
C14_Witness ==
    /\ EegCalled
    /\ ~unit_result.ok
    /\ "SamplingFrequency" \in DOMAIN unit_call.fields
    /\ unit_call.fields.SamplingFrequency = Number(-1)
    /\ ValidEegChoice([unit_call.fields EXCEPT
                           !.SamplingFrequency = Number(256)])

(***************************************************************************)
(* Channel classification, stated without regard to letter case            *)
(***************************************************************************)
\* two characters that are the same letter in either case, or equal
SameChar(a, b) ==
    \/ a = b
    \/ \E n \in 1..Len(LowerLetters) :
          {a, b} = {LowerLetters[n], UpperLetters[n]}

\* the name is the word, whatever the case of its letters
IsWord(name, word) ==
    /\ Len(name) = Len(word)
    /\ \A k \in 1..Len(word) : SameChar(name[k], word[k])

\* the word occurs in the name, whatever the case of its letters
HasWord(name, word) ==
    \E i \in 1..Len(name) :
        /\ i + Len(word) - 1 <= Len(name)
        /\ \A k \in 1..Len(word) : SameChar(name[i + k - 1], word[k])

Electrodes21 ==
    { <<"F", "p", "1">>, <<"F", "p", "2">>, <<"F", "3">>, <<"F", "4">>,
      <<"C", "3">>, <<"C", "4">>, <<"P", "3">>, <<"P", "4">>, <<"O", "1">>,
      <<"O", "2">>, <<"F", "7">>, <<"F", "8">>, <<"T", "3">>, <<"T", "4">>,
      <<"T", "5">>, <<"T", "6">>, <<"F", "z">>, <<"C", "z">>, <<"P", "z">>,
      <<"A", "1">>, <<"A", "2">> }

Electrodes25 ==
    Electrodes21 \cup { <<"T", "7">>, <<"T", "8">>, <<"P", "7">>, <<"P", "8">> }

\* the classification rule over a given electrode set
RuleLabel(name, electrodes) ==
    IF \E e \in electrodes : IsWord(name, e) THEN "EEG"
    ELSE IF HasWord(name, <<"E", "K", "G">>) \/ HasWord(name, <<"E", "C", "G">>)
         THEN "ECG"
    ELSE IF HasWord(name, <<"E", "O", "G">>) THEN "EOG"
    ELSE IF HasWord(name, <<"E", "M", "G">>)
              \/ HasWord(name, <<"M", "U", "S", "C">>)
         THEN "EMG"
    ELSE "MISC"

Classified ==
    unit_call.op = "determine_channel_type" /\ unit_result # NotCalled

\* C20 as stated: every channel name gets exactly one of the five labels,
\* the one the rule gives over the 21-name electrode set.
C20_RuleOver21Names ==
    Classified =>
        /\ unit_result.value \in {"EEG", "ECG", "EOG", "EMG", "MISC"}
        /\ unit_result.value = RuleLabel(unit_call.name, Electrodes21)

\* C20 (amended): every channel name gets exactly one of the five labels,
\* the one the rule gives over the 25-name electrode set, which has T7, T8,
\* P7 and P8 besides the 21 names.
C20_RuleOver25Names ==
    Classified =>
        /\ unit_result.value \in {"EEG", "ECG", "EOG", "EMG", "MISC"}
        /\ unit_result.value = RuleLabel(unit_call.name, Electrodes25)

\* a name with two keywords was classified by the first test that applies
C20_Witness ==
    /\ Classified
    /\ unit_call.name = <<"E", "K", "G", "E", "O", "G">>
    /\ unit_result.value = "ECG"

(***************************************************************************)
(* The orchestration of generate_bids_sidecars.main                        *)
(***************************************************************************)
AttemptsOf(kind) == { k \in DOMAIN attempts : attempts[k].kind = kind }

\* C15: a handler calls save on a sidecar only after validate returned true
\* for it; when validate fails the handler writes nothing and reports
\* failure.
C15_SaveOnlyAfterValidate ==
    \A k \in DOMAIN attempts :
        /\ attempts[k].save_called => attempts[k].validate = "ok"
        /\ attempts[k].validate = "ValueError"
              => ~attempts[k].wrote /\ ~attempts[k].ok

\* one sidecar was rejected by validate, another was validated and written
C15_Witness ==
    /\ \E k \in DOMAIN attempts : attempts[k].validate = "ValueError"
    /\ \E k \in DOMAIN attempts :
          attempts[k].save_called /\ attempts[k].wrote

\* C16: no exception leaves the loops of main: when main is done, every
\* discovered session was attempted and counted exactly once for the
\* recording metadata and once for the channel table, and every patient
\* once for the session table.
C16_EveryAttemptCounted ==
    (gpc = "done" /\ pathes # <<>>) =>
        /\ exit_code # "raised"
        /\ \A i \in 1..Len(pathes) :
              /\ Cardinality({ k \in AttemptsOf("eeg") :
                                  attempts[k].index = i }) = 1
              /\ Cardinality({ k \in AttemptsOf("channels") :
                                  attempts[k].index = i }) = 1
        /\ \A i \in 1..Len(sessions_by_patient(pathes)) :
              Cardinality({ k \in AttemptsOf("sessions") :
                              attempts[k].index = i }) = 1
        /\ tally.successful_eeg + tally.failed_eeg = Len(pathes)
        /\ tally.successful_channels + tally.failed_channels = Len(pathes)
        /\ tally.successful_sessions + tally.failed_sessions
              = Len(sessions_by_patient(pathes))

KindRank(kind) ==
    IF kind = "eeg" THEN 1 ELSE IF kind = "channels" THEN 2 ELSE 3

\* C17: within one pass every recording-metadata attempt comes before the
\* first channel-table attempt, and every channel-table attempt before the
\* first session-table attempt.
C17_KindOrdering ==
    /\ \A i, j \in DOMAIN attempts :
          i < j => KindRank(attempts[i].kind) <= KindRank(attempts[j].kind)
    /\ AttemptsOf("channels") # {}
          => Cardinality(AttemptsOf("eeg")) = Len(pathes)
    /\ AttemptsOf("sessions") # {}
          => Cardinality(AttemptsOf("channels")) = Len(pathes)

\* a pass over two sessions has made attempts of all three kinds
C17_Witness ==
    /\ Len(pathes) = 2
    /\ Cardinality(AttemptsOf("eeg")) = 2
    /\ Cardinality(AttemptsOf("channels")) = 2
    /\ AttemptsOf("sessions") # {}

\* the sidecar of the given kind and index was validated and saved
Succeeded(kind, i) ==
    \E k \in AttemptsOf(kind) :
        /\ attempts[k].index = i
        /\ attempts[k].ok
        /\ attempts[k].validate = "ok"
        /\ attempts[k].save_called

AllSucceeded ==
    /\ \A i \in 1..Len(pathes) :
          Succeeded("eeg", i) /\ Succeeded("channels", i)
    /\ \A i \in 1..Len(sessions_by_patient(pathes)) :
          Succeeded("sessions", i)

\* C18: main ends with exit status zero if and only if every sidecar of
\* every kind for every discovered session and patient was validated and
\* saved; otherwise the status is not zero.
C18_ExitStatus ==
    exit_code # "running" => (exit_code = "0" <=> AllSucceeded)

\* main returned 1 after a pass in which one sidecar failed and another
\* was saved
C18_Witness ==
    /\ exit_code = "1"
    /\ tally.failed_eeg > 0
    /\ tally.successful_eeg > 0
    /\ tally.successful_sessions > 0

SessionsCalled ==
    /\ unit_call.op = "handle_sessions_tsv"
    /\ unit_result # NotCalled
    /\ unit_result.error = "none"

\* C19: the rows of a patient's session table are in ascending age order;
\* the first row is "baseline" exactly when its age is between 1.5 and 6
\* months inclusive, every other row is "followup"; so there is at most
\* one baseline row.  Ages are in tenths of a month.
C19_SessionRows ==
    SessionsCalled =>
        LET rows == unit_result.rows
        IN  /\ Len(rows) = Len(unit_call.sessions)
            /\ \A i, j \in DOMAIN rows :
                  i < j => rows[i].age_in_months <= rows[j].age_in_months
            /\ rows[1].visit_type = "baseline"
                  <=> (15 <= rows[1].age_in_months
                         /\ rows[1].age_in_months <= 60)
            /\ \A i \in DOMAIN rows :
                  i > 1 => rows[i].visit_type = "followup"
            /\ \A i \in DOMAIN rows :
                  rows[i].visit_type \in {"baseline", "followup"}
            /\ Cardinality({ i \in DOMAIN rows :
                               rows[i].visit_type = "baseline" }) <= 1

\* the sessions of ages 15 and 3, given in that order, became the rows of
\* age 3, baseline, and age 15, followup
C19_Witness ==
    /\ SessionsCalled
    /\ unit_call.sessions = <<[age |-> <<"1", "5">>], [age |-> <<"3">>]>>
    /\ unit_result.rows[1].age_in_months = 30
    /\ unit_result.rows[1].visit_type = "baseline"
    /\ unit_result.rows[2].visit_type = "followup"

(***************************************************************************)
(* Construction and persistence of a sidecar                               *)
(***************************************************************************)
Saved == unit_call.op = "EegJSON.save" /\ unit_result # NotCalled

\* the directory save is to use: its argument if given, else the one given
\* at construction, else output/json
ExpectedOutputDir ==
    IF unit_call.output_dir # <<>> THEN unit_call.output_dir
    ELSE IF "output_dir" \in DOMAIN unit_call.kwargs
    THEN unit_call.kwargs.output_dir
    ELSE << <<"o", "u", "t", "p", "u", "t">>, <<"j", "s", "o", "n">> >>

ExpectedBidsPath ==
    IF "bids_path" \in DOMAIN unit_call.kwargs
    THEN unit_call.kwargs.bids_path
    ELSE EegJSON_default_bids_path

ExpectedFilename ==
    IF "filename" \in DOMAIN unit_call.kwargs THEN unit_call.kwargs.filename
    ELSE <<"e", "e", "g", ".", "j", "s", "o", "n">>

ExpectedPath ==
    IF unit_call.flat THEN Append(ExpectedOutputDir, ExpectedFilename)
    ELSE Append(ExpectedOutputDir \o ExpectedBidsPath, ExpectedFilename)

\* C21: save writes exactly one file and returns its path:
\* outputDir/filename when flat, else outputDir/bidsPath/filename, with
\* outputDir the argument, else the constructor's, else output/json, and
\* filename the constructor's override, else the default; an existing
\* target directory is no error.
C21_SavePath ==
    Saved =>
        /\ unit_result.ok
        /\ unit_result.path = ExpectedPath
        /\ DOMAIN unit_result.files
              = (DOMAIN unit_result.files_before) \cup {ExpectedPath}
        /\ unit_result.files[ExpectedPath].kind = "json"
        /\ unit_result.dirs_before \subseteq unit_result.dirs

\* a save without argument used the constructor's directory and file name
\* under the default bids path, the directory being there already
C21_Witness ==
    /\ Saved
    /\ unit_call.target = "directory"
    /\ unit_call.output_dir = <<>>
    /\ ~unit_call.flat
    /\ unit_result.path = <<D_made>> \o EegJSON_default_bids_path
                              \o <<F_custom>>
    /\ unit_result.dirs = unit_result.dirs_before

\* C22: a field the user supplied overrides the default of the same name,
\* every default the user did not supply is in the payload with its
\* default value, and validate sees the merged payload.
C22_DefaultMerge ==
    EegCalled =>
        /\ \A k \in DOMAIN unit_call.fields :
              /\ k \in DOMAIN unit_result.data
              /\ unit_result.data[k] = unit_call.fields[k]
        /\ \A k \in (DOMAIN EegJSON_DEFAULTS) \ (DOMAIN unit_call.fields) :
              /\ k \in DOMAIN unit_result.data
              /\ unit_result.data[k] = EegJSON_DEFAULTS[k]
        /\ DOMAIN unit_call.fields = {"SamplingFrequency", "PowerLineFrequency"}
              => (unit_result.ok <=>
                    /\ unit_call.fields.SamplingFrequency
                          \in {Number(256), Integer(0)}
                    /\ unit_call.fields.PowerLineFrequency = Integer(50))

\* the user's PowerLineFrequency of 50 replaced the default 60, the default
\* TaskName is in the payload, and validate passed
C22_Witness ==
    /\ EegCalled
    /\ DOMAIN unit_call.fields = {"SamplingFrequency", "PowerLineFrequency"}
    /\ unit_result.data.PowerLineFrequency = Integer(50)
    /\ unit_result.data.TaskName = EegJSON_DEFAULTS.TaskName
    /\ unit_result.ok

Revalidated == unit_call.op = "validate again" /\ unit_result # NotCalled

\* C23: validate called again on an unmodified sidecar gives the same
\* outcome each time and leaves the payload and the path info as they
\* were constructed.
C23_ValidateRepeatable ==
    Revalidated =>
        /\ \A i \in DOMAIN unit_result.outcomes :
              unit_result.outcomes[i] = unit_result.outcomes[1]
        /\ unit_result.sc.data = constructed(unit_call).data
        /\ unit_result.sc.paths = constructed(unit_call).paths

\* validate has failed twice on the same sessions table
C23_Witness ==
    /\ Revalidated
    /\ unit_call.kind = "SessionsTSV"
    /\ unit_call.arg # <<>>
    /\ Len(unit_result.outcomes) >= 2
    /\ unit_result.outcomes[2] = "ValueError"

\* the payload after the defaults were merged in
MergedKeys == (DOMAIN EegJSON_DEFAULTS) \cup (DOMAIN unit_call.fields)

\* C24 as stated: a payload key named bids_path, output_dir, filename or
\* json_indent is not in self.data and is not serialized; every other
\* payload key is kept.
C24_FourPathOptionKeys ==
    Saved =>
        LET options == {"bids_path", "output_dir", "filename", "json_indent"}
        IN  /\ DOMAIN unit_result.data = MergedKeys \ options
            /\ DOMAIN unit_result.files[unit_result.path].data
                  = MergedKeys \ options

\* C24 (amended): a payload key named output_dir, input_dir, bids_path or
\* filename is not in self.data and is not serialized; every other
\* payload key, json_indent among them, is kept.
C24_ExcludedKeys ==
    Saved =>
        LET excluded == {"output_dir", "input_dir", "bids_path", "filename"}
        IN  /\ DOMAIN unit_result.data = MergedKeys \ excluded
            /\ DOMAIN unit_result.files[unit_result.path].data
                  = MergedKeys \ excluded

\* a payload with all five keys was saved with json_indent and without the
\* other four
C24_Witness ==
    /\ Saved
    /\ {"bids_path", "output_dir", "filename", "json_indent", "input_dir",
        "Notes"} \subseteq DOMAIN unit_call.fields
    /\ "json_indent" \in DOMAIN unit_result.files[unit_result.path].data
    /\ "input_dir" \notin DOMAIN unit_result.files[unit_result.path].data

TableSaved == unit_call.op = "ChannelsTSV.save" /\ unit_result # NotCalled

\* the file save left holds a table
TableWritten ==
    /\ unit_result.path \in DOMAIN unit_result.files
    /\ unit_result.files[unit_result.path].kind = "tsv"

\* C25 as stated: save of a table fails and writes no table whenever some
\* row's key set differs from the first row's, by an additional key or by
\* a missing one.
C25_AnyDifferenceFails ==
    TableSaved =>
        ((\E i \in RowIndices : Columns(i) # Columns(0))
            => ~unit_result.ok /\ ~TableWritten)

\* C25 (amended): save of a table takes the header from the first row's
\* keys and fails, writing no table, exactly when the list is empty or
\* some row has a key that the first row lacks; the target file is then
\* left empty.  A row that only lacks keys of the first row is written.
C25_AdditionalKeyFails ==
    TableSaved =>
        LET bad == \/ unit_call.rows = <<>>
                   \/ \E i \in RowIndices : ~(Columns(i) \subseteq Columns(0))
        IN  /\ ~unit_result.ok <=> bad
            /\ bad => /\ ~TableWritten
                       /\ unit_result.files[unit_result.path].kind = "empty"
            /\ ~bad => /\ TableWritten
                        /\ unit_result.files[unit_result.path].header
                              = Columns(0)
                        /\ Len(unit_result.files[unit_result.path].rows)
                              = Len(unit_call.rows)

\* a table whose second row has a key more than the first was refused
C25_Witness ==
    /\ TableSaved
    /\ Len(unit_call.rows) = 2
    /\ Columns(0) = ChannelsTSV_REQUIRED_FIELDS
    /\ Columns(1) = ChannelsTSV_REQUIRED_FIELDS \cup {"status"}
    /\ ~unit_result.ok
    /\ unit_result.files[unit_result.path].kind = "empty"

(***************************************************************************)
(* Where the per-session sidecars land and what they say                   *)
(***************************************************************************)
\* the directory of a path
Dirname(p) == SubSeq(p, 1, Len(p) - 1)

\* the file names handle_eeg_json and handle_channels_tsv give a record's
\* sidecars
SidecarName(kind, r) ==
    IF kind = "eeg" THEN eeg_json_filename(r.patient_id, r.age)
    ELSE channels_tsv_filename(r.patient_id, r.age)

\* C27: for every record of find_bids_path whose recording metadata or
\* channel table was saved, the sidecar is in the record's eeg_dir, the
\* directory that holds the recording.
C27_SidecarBesideRecording ==
    \A k \in DOMAIN attempts :
        (attempts[k].kind \in {"eeg", "channels"} /\ attempts[k].ok) =>
            LET r == pathes[attempts[k].index]
            IN  /\ r.eeg_dir = Dirname(r.edf_file)
                /\ Append(r.eeg_dir, SidecarName(attempts[k].kind, r))
                      \in DOMAIN fs_files

\* the number of rows of the table with the given type
RowsOfType(rows, ty) ==
    Cardinality({ j \in 1..Len(rows) : rows[j].type = ty })

\* C28: for a session whose recording metadata and channel table were both
\* saved, whether or not the signal reader is available, the counts
\* EEGChannelCount, ECGChannelCount, EOGChannelCount, EMGChannelCount and
\* MiscChannelCount of the metadata equal the numbers of rows of type EEG,
\* ECG, EOG, EMG and MISC of the table, and sum to its number of rows.
C28_CountsMatchRows ==
    \A i \in DOMAIN pathes :
        (Succeeded("eeg", i) /\ Succeeded("channels", i)) =>
            LET r == pathes[i]
                dir == session_bids_path(r.patient_id, r.age)
                md == fs_files[Append(dir, SidecarName("eeg", r))].data
                rows == fs_files[Append(dir, SidecarName("channels", r))].rows
            IN  /\ md.EEGChannelCount = Integer(RowsOfType(rows, "EEG"))
                /\ md.ECGChannelCount = Integer(RowsOfType(rows, "ECG"))
                /\ md.EOGChannelCount = Integer(RowsOfType(rows, "EOG"))
                /\ md.EMGChannelCount = Integer(RowsOfType(rows, "EMG"))
                /\ md.MiscChannelCount = Integer(RowsOfType(rows, "MISC"))
                /\ md.EEGChannelCount.v + md.ECGChannelCount.v
                     + md.EOGChannelCount.v + md.EMGChannelCount.v
                     + md.MiscChannelCount.v = Len(rows)

(***************************************************************************)
(* The logger shared by the sidecar classes                                *)
(***************************************************************************)
\* C26: under every interleaving of get_logger calls made by threads
\* through Sidecar or its subclasses, setup_logger runs at most once,
\* handlers are attached at most once, and every caller that returned
\* holds the same logger.
C26_LoggerConstructedOnce ==
    /\ logging.setup_runs <= 1
    /\ logging.handlers \in {0, 2}
    /\ \A t, u \in DOMAIN callers :
          (callers[t].pc = "done" /\ callers[u].pc = "done")
              => /\ callers[t].got = S_sidecar_data_generator
                 /\ callers[t].got = callers[u].got

====
